---- MODULE Spec2Model ----
(***************************************************************************)
(* Code classifier, phenotype aggregation, configuration merge, heuristic  *)
(* eligibility rule engine, labelling step, pipeline and ranking           *)
(* evaluator of clinical-eligibility-ml.                                   *)
(*                                                                         *)
(* Tables (pandas DataFrames) are sequences of rows; a row is a record     *)
(* whose fields are the columns the table has, so "column in df.columns"   *)
(* is a test on the DOMAIN of the rows.  A nullable numeric cell is <<>>   *)
(* (NaN) or a one-element tuple <<v>>.  A study configuration is a record  *)
(* whose DOMAIN is the set of keys given; None and {} are both the empty   *)
(* record (both are falsy in "if study_config and ...").                   *)
(* Metrics are exact fractions <<numerator, denominator>> in lowest terms. *)
(***************************************************************************)
EXTENDS Integers, Sequences, FiniteSets, TLC

VARIABLES op, df, study_config, out, err, passed,
          scored, label_dtype, k_values, ranked, results, raised,
          annotated, phenotypes, heuristics, features

vars == <<op, df, study_config, out, err, passed,
          scored, label_dtype, k_values, ranked, results, raised,
          annotated, phenotypes, heuristics, features>>

ruleVars == <<op, df, study_config, out, err, passed>>
rankVars == <<scored, label_dtype, k_values, ranked, results, raised>>
pipeVars == <<annotated, phenotypes, heuristics, features>>

-----------------------------------------------------------------------------
(* Bounds of the model *)

MaxRows == 1
MaxCount == 2
MaxScored == 3
MaxScore == 2
MaxK == 4

-----------------------------------------------------------------------------
(* config/thresholds.py, config/settings.py *)

MIN_ELIGIBLE_AGE == 18
MAX_ELIGIBLE_AGE == 85
MAX_EXCLUSION_AGE == 90
MIN_STROKE_CODE_COUNT == 1
PREFER_PRIMARY_STROKE_DIAGNOSIS == TRUE
INCLUDE_ELECTIVE_ADMISSIONS == TRUE

-----------------------------------------------------------------------------
(* Cells, rows, dictionaries *)

NaN == <<>>

\* pandas comparison of a nullable numeric cell with a number: NaN compares
\* False with everything
CellGe(c, x) == c # NaN /\ c[1] >= x
CellLe(c, x) == c # NaN /\ c[1] <= x
CellGt(c, x) == c # NaN /\ c[1] > x

\* the float 0.0 (floats that are ratios are fractions in lowest terms)
Zero == <<0, 1>>

\* dict.get(key, default)
Get(d, key, default) == IF key \in DOMAIN d THEN d[key] ELSE default

\* "column in df.columns"
HasColumn(t, col) == \A i \in 1..Len(t) : col \in DOMAIN t[i]

\* df[col] = value (per row): new columns are added, existing ones replaced
WithColumns(row, new) == new @@ row

\* truthiness of "study_config and section in study_config"
HasSection(cfg, section) == DOMAIN cfg # {} /\ section \in DOMAIN cfg

-----------------------------------------------------------------------------
(* heuristics/age_rules.py *)

age_min(cfg) ==
    IF HasSection(cfg, "age") THEN Get(cfg.age, "min", MIN_ELIGIBLE_AGE)
    ELSE MIN_ELIGIBLE_AGE

age_max(cfg) ==
    IF HasSection(cfg, "age") THEN Get(cfg.age, "max", MAX_ELIGIBLE_AGE)
    ELSE MAX_ELIGIBLE_AGE

age_hard_exclude(cfg) ==
    IF HasSection(cfg, "age") THEN Get(cfg.age, "hard_exclude", MAX_EXCLUSION_AGE)
    ELSE MAX_EXCLUSION_AGE

\* variant: upper bound exclusive
age_in_range_mask_exclusive_max(age, lo, hi) ==
    CellGe(age, lo) /\ age # NaN /\ age[1] < hi

\* variant: a null age counts as in range
age_in_range_mask_null_in_range(age, lo, hi) ==
    age = NaN \/ (CellGe(age, lo) /\ CellLe(age, hi))

age_in_range_mask(age, lo, hi) == CellGe(age, lo) /\ CellLe(age, hi)

age_excluded_mask(age, hard) == CellGt(age, hard)

\* variant: a table without the age column is treated as out of range
apply_age_rules_absent_excludes(t, cfg) ==
    [i \in 1..Len(t) |->
       WithColumns(t[i],
         [age_in_range |-> HasColumn(t, "age_at_admission")
                           /\ age_in_range_mask(t[i].age_at_admission,
                                                age_min(cfg), age_max(cfg)),
          age_excluded |-> HasColumn(t, "age_at_admission")
                           /\ age_excluded_mask(t[i].age_at_admission,
                                                age_hard_exclude(cfg))])]

apply_age_rules(t, cfg) ==
    IF ~HasColumn(t, "age_at_admission")
    THEN [i \in 1..Len(t) |->
            WithColumns(t[i], [age_in_range |-> TRUE, age_excluded |-> FALSE])]
    ELSE [i \in 1..Len(t) |->
            WithColumns(t[i],
              [age_in_range |-> age_in_range_mask(t[i].age_at_admission,
                                                  age_min(cfg), age_max(cfg)),
               age_excluded |-> age_excluded_mask(t[i].age_at_admission,
                                                  age_hard_exclude(cfg))])]

-----------------------------------------------------------------------------
(* heuristics/stroke_rules.py *)

stroke_min_code_count(cfg) ==
    IF HasSection(cfg, "stroke_signal")
    THEN Get(cfg.stroke_signal, "min_code_count", MIN_STROKE_CODE_COUNT)
    ELSE MIN_STROKE_CODE_COUNT

stroke_require_any_signal(cfg) ==
    IF HasSection(cfg, "stroke_signal")
    THEN Get(cfg.stroke_signal, "require_any_signal", TRUE)
    ELSE TRUE

stroke_prefer_primary(cfg) ==
    IF HasSection(cfg, "stroke_signal")
    THEN Get(cfg.stroke_signal, "prefer_primary_dx", PREFER_PRIMARY_STROKE_DIAGNOSIS)
    ELSE PREFER_PRIMARY_STROKE_DIAGNOSIS

\* variant: the signal is required whatever require_any_signal says
stroke_signal_ok_mask_always_required(has_signal, count, require_any, min_count) ==
    has_signal /\ count >= min_count

stroke_signal_ok_mask(has_signal, count, require_any, min_count) ==
    IF require_any
    THEN has_signal /\ count >= min_count
    ELSE count >= min_count

apply_stroke_rules(t, cfg) ==
    [i \in 1..Len(t) |->
       WithColumns(t[i],
         [stroke_signal_ok |->
             stroke_signal_ok_mask(t[i].has_any_stroke_signal,
                                   t[i].stroke_code_count,
                                   stroke_require_any_signal(cfg),
                                   stroke_min_code_count(cfg)),
          stroke_primary_preferred |->
             IF stroke_prefer_primary(cfg) /\ HasColumn(t, "stroke_primary_dx_flag")
             THEN t[i].stroke_primary_dx_flag
             ELSE FALSE])]

\* require_columns of apply_stroke_rules
stroke_rules_missing(t) ==
    ~HasColumn(t, "stroke_code_count") \/ ~HasColumn(t, "has_any_stroke_signal")

-----------------------------------------------------------------------------
(* heuristics/exclusion_rules.py *)

exclude_without_stroke(cfg) ==
    IF HasSection(cfg, "exclusions")
    THEN Get(cfg.exclusions, "exclude_without_stroke_signal", TRUE)
    ELSE TRUE

exclude_if_age_above(cfg) ==
    IF HasSection(cfg, "exclusions")
    THEN Get(cfg.exclusions, "exclude_if_age_above_hard_limit", TRUE)
    ELSE TRUE

\* the hard-exclusion age is read from the age section only inside the
\* branch taken when the configuration has an exclusions section
hard_exclude_age(cfg) ==
    IF HasSection(cfg, "exclusions")
    THEN Get(Get(cfg, "age", <<>>), "hard_exclude", MAX_EXCLUSION_AGE)
    ELSE MAX_EXCLUSION_AGE

\* one row of apply_exclusion_rules, statement by statement
exclusion_row(row, cfg) ==
    LET ageHit  == exclude_if_age_above(cfg)
                   /\ CellGt(row.age_at_admission, hard_exclude_age(cfg))
        excl1   == ageHit
        reason1 == IF ageHit THEN "age_above_hard_limit" ELSE ""
        noSig   == ~row.has_any_stroke_signal
        excl2   == IF exclude_without_stroke(cfg) /\ ~excl1 /\ noSig
                   THEN TRUE ELSE excl1
        reason2 == IF exclude_without_stroke(cfg) /\ excl2 /\ reason1 = "" /\ noSig
                   THEN "no_stroke_signal" ELSE reason1
    IN  WithColumns(row, [excluded |-> excl2, exclusion_reason |-> reason2])

apply_exclusion_rules(t, cfg) == [i \in 1..Len(t) |-> exclusion_row(t[i], cfg)]

\* require_columns of apply_exclusion_rules
exclusion_rules_missing(t) ==
    ~HasColumn(t, "age_at_admission") \/ ~HasColumn(t, "has_any_stroke_signal")

-----------------------------------------------------------------------------
(* heuristics/eligibility_label.py *)

\* .astype(str).str.upper() on the admission types of the model
str_upper(s) ==
    CASE s = "emergency" -> "EMERGENCY"
      [] s = "Elective"  -> "ELECTIVE"
      [] OTHER           -> s

\* .str.contains("EMERGENCY") on the (upper-cased) admission types of the model
contains_emergency(s) == s \in {"EMERGENCY", "EMERGENCY ROOM ADMIT"}

\* variant: the stroke signal does not gate the label
final_label_without_signal(in_range, signal_ok, adm_ok, excl) ==
    in_range /\ adm_ok /\ ~excl

final_label(in_range, signal_ok, adm_ok, excl) ==
    in_range /\ signal_ok /\ adm_ok /\ ~excl

\* every column _apply_heuristics has for one row before the selection: the
\* columns of the input and the ones it assigns
heuristics_row(row, hasAge) ==
    LET in_range == IF hasAge
                    THEN age_in_range_mask(row.age_at_admission,
                                           MIN_ELIGIBLE_AGE, MAX_ELIGIBLE_AGE)
                    ELSE TRUE
        age_excl == IF hasAge
                    THEN age_excluded_mask(row.age_at_admission, MAX_EXCLUSION_AGE)
                    ELSE FALSE
        signal_ok == row.has_any_stroke_signal
        is_emerg  == contains_emergency(str_upper(row.admission_type))
        adm_ok    == IF INCLUDE_ELECTIVE_ADMISSIONS THEN TRUE ELSE is_emerg
        excl      == age_excl
    IN  WithColumns(row,
          [age_in_range |-> in_range, age_excluded |-> age_excl,
           stroke_signal_ok |-> signal_ok, is_emergency |-> is_emerg,
           admission_ok |-> adm_ok, excluded |-> excl,
           eligibility_heuristic_label |->
               final_label(in_range, signal_ok, adm_ok, excl)])

\* _apply_heuristics up to the final label: the working table, from which the
\* function returns the selection of HeuristicsColumns
apply_heuristics_full(t) ==
    [i \in 1..Len(t) |-> heuristics_row(t[i], HasColumn(t, "age_at_admission"))]

\* the columns _apply_heuristics returns
HeuristicsColumns ==
    {"subject_id", "hadm_id", "eligibility_heuristic_label",
     "has_any_stroke_signal", "stroke_code_count", "has_any_cvd_signal",
     "cardiovascular_code_count", "age_in_range", "admission_ok", "excluded"}

\* df[[columns]]: KeyError when a listed column is not in the table, else the
\* rows with the listed columns and no other
Select(t, cols) ==
    IF \E c \in cols : ~HasColumn(t, c)
    THEN [raises |-> "KeyError", returns |-> <<>>]
    ELSE [raises |-> "",
          returns |-> [i \in 1..Len(t) |-> [c \in cols |-> t[i][c]]]]

\* _apply_heuristics(df): what it raises ("" for nothing) and returns
apply_heuristics(t) == Select(apply_heuristics_full(t), HeuristicsColumns)

-----------------------------------------------------------------------------
(* features/build_feature_matrix.py, run_engine.py *)

\* the rows of the right table that carry the hadm_id of a left row, in the
\* right table's order
matching_rows(row, right) == SelectSeq(right, LAMBDA r : r.hadm_id = row.hadm_id)

\* what a left merge makes of one left row: one row per matching right row,
\* or one row without right part (<<>>, its right columns are null)
merged_rows(row, right) ==
    LET matches == matching_rows(row, right)
    IN  IF Len(matches) = 0
        THEN <<[left |-> row, right |-> <<>>]>>
        ELSE [k \in 1..Len(matches) |-> [left |-> row, right |-> <<matches[k]>>]]

RECURSIVE concat_rows(_)
concat_rows(parts) ==
    IF Len(parts) = 0 THEN <<>>
    ELSE Head(parts) \o concat_rows(Tail(parts))

\* variant: an inner merge, left rows without a row on the right are dropped
merge_left_inner(left, right) ==
    concat_rows([i \in 1..Len(left) |->
                    IF Len(matching_rows(left[i], right)) = 0 THEN <<>>
                    ELSE merged_rows(left[i], right)])

\* left.merge(right, on="hadm_id", how="left"): the left rows in order, each
\* with its matching right rows
merge_left(left, right) ==
    concat_rows([i \in 1..Len(left) |-> merged_rows(left[i], right)])

\* a column the merge took from the right table, after fillna(default): the
\* default where the row has no right part
fillna(part, col, default) ==
    IF part = <<>> THEN default ELSE part[1][col]

\* admissions.merge(stroke).merge(cvd): the admission rows with the records
\* of the two phenotype files they matched
merge_phenotypes(adm, stroke, cvd) ==
    LET first  == merge_left(adm, stroke)
        second == merge_left([i \in 1..Len(first) |->
                                 WithColumns(first[i].left,
                                             [stroke_phenotype |-> first[i].right])],
                             cvd)
    IN  [i \in 1..Len(second) |->
            WithColumns(second[i].left,
                        [cardiovascular_phenotype |-> second[i].right])]

\* the admission columns of a merged row
admission_columns(row) ==
    [c \in DOMAIN row \ {"stroke_phenotype", "cardiovascular_phenotype"} |-> row[c]]

\* eligibility_label._join_inputs(admissions, stroke, cvd), the columns it
\* fills (the other phenotype columns stay null for unmatched admissions and
\* are neither read nor returned by _apply_heuristics)
join_inputs(adm, stroke, cvd) ==
    LET merged == merge_phenotypes(adm, stroke, cvd)
    IN  [i \in 1..Len(merged) |->
            LET s == merged[i].stroke_phenotype
                c == merged[i].cardiovascular_phenotype
            IN  WithColumns(admission_columns(merged[i]),
                  [has_any_stroke_signal |-> fillna(s, "has_any_stroke_signal", FALSE),
                   stroke_code_count |-> fillna(s, "stroke_code_count", 0),
                   has_any_cvd_signal |-> fillna(c, "has_any_cvd_signal", FALSE),
                   cardiovascular_code_count |->
                       fillna(c, "cardiovascular_code_count", 0)])]

\* build_feature_matrix._join_all(admissions, stroke, cvd, heuristics): the
\* three merges, the phenotype columns with their phenotype_defaults, then
\* the label with fillna(False)
join_all_tables(adm, stroke, cvd, heur) ==
    LET merged  == merge_phenotypes(adm, stroke, cvd)
        labeled == merge_left(merged, heur)
    IN  [i \in 1..Len(labeled) |->
            LET s == labeled[i].left.stroke_phenotype
                c == labeled[i].left.cardiovascular_phenotype
            IN  WithColumns(admission_columns(labeled[i].left),
                  [stroke_code_count |-> fillna(s, "stroke_code_count", 0),
                   stroke_code_density |-> fillna(s, "stroke_code_density", Zero),
                   has_any_stroke_signal |-> fillna(s, "has_any_stroke_signal", FALSE),
                   stroke_primary_dx_flag |->
                       fillna(s, "stroke_primary_dx_flag", FALSE),
                   cardiovascular_code_count |->
                       fillna(c, "cardiovascular_code_count", 0),
                   cardiovascular_code_density |->
                       fillna(c, "cardiovascular_code_density", Zero),
                   has_any_cvd_signal |-> fillna(c, "has_any_cvd_signal", FALSE),
                   eligibility_heuristic_label |->
                       fillna(labeled[i].right, "eligibility_heuristic_label",
                              FALSE)])]

-----------------------------------------------------------------------------
(* evaluation/ranking.py *)

Min(a, b) == IF a <= b THEN a ELSE b

RECURSIVE GCD(_, _)
GCD(a, b) == IF b = 0 THEN a ELSE GCD(b, a % b)

\* the float n / d (d > 0) as a fraction in lowest terms
Ratio(n, d) == <<n \div GCD(n, d), d \div GCD(n, d)>>

\* variant: the capacity is not applied
head_whole_table(t, k) == t

\* DataFrame.head(k), k >= 0
head(t, k) == SubSeq(t, 1, Min(k, Len(t)))

\* df[df["eligibility_heuristic_label"]]
positives(t) == SelectSeq(t, LAMBDA r : r.eligibility_heuristic_label)

\* Series.sum() of the boolean label column
label_sum(t) == Len(positives(t))

\* variant: the first K rows are taken before the positives are selected
heuristic_screening_of_first_rows(t, k) ==
    LET screened        == positives(head(t, k))
        total_positives == Len(positives(t))
    IN  [recall_at_k    |-> IF total_positives > 0
                            THEN Ratio(Len(screened), total_positives) ELSE Zero,
         precision_at_k |-> IF k > 0 THEN Ratio(Len(screened), k) ELSE Zero]

\* variant: every heuristic-positive row is screened whatever K is
heuristic_screening_ignores_k(t, k) ==
    LET total_positives == Len(positives(t))
    IN  [recall_at_k    |-> IF total_positives > 0
                            THEN Ratio(total_positives, total_positives) ELSE Zero,
         precision_at_k |-> IF k > 0 THEN Ratio(total_positives, k) ELSE Zero]

\* _evaluate_heuristic_screening(df, k)
evaluate_heuristic_screening(t, k) ==
    LET screened        == head(positives(t), k)
        total_positives == Len(positives(t))
    IN  [recall_at_k    |-> IF total_positives > 0
                            THEN Ratio(Len(screened), total_positives) ELSE Zero,
         precision_at_k |-> IF k > 0 THEN Ratio(Len(screened), k) ELSE Zero]

Permutations_(n) == {p \in [1..n -> 1..n] : \A i, j \in 1..n : i # j => p[i] # p[j]}

Descending(t, p) ==
    \A i, j \in 1..Len(t) :
        i < j => t[p[i]].eligibility_ml_score >= t[p[j]].eligibility_ml_score

\* variant: ascending order
sort_values_ascending(t) ==
    {p \in Permutations_(Len(t)) :
        \A i, j \in 1..Len(t) :
            i < j => t[p[i]].eligibility_ml_score <= t[p[j]].eligibility_ml_score}

\* df.sort_values(by="eligibility_ml_score", ascending=False): the row orders
\* the call may return.  No kind= is passed, so pandas sorts with its default
\* "quicksort", which is not a stable algorithm: rows with equal scores come
\* out in an order the numpy build decides.
sort_values(t) == {p \in Permutations_(Len(t)) : Descending(t, p)}

\* the order a stable sort (kind="stable") would return
stable_order(t) ==
    CHOOSE p \in Permutations_(Len(t)) :
        /\ Descending(t, p)
        /\ \A i, j \in 1..Len(t) :
              (i < j /\ t[p[i]].eligibility_ml_score = t[p[j]].eligibility_ml_score)
                 => p[i] < p[j]

Reorder(t, p) == [i \in 1..Len(t) |-> t[p[i]]]

\* _evaluate_ml_ranking(df, k), order = the row order sort_values returned
evaluate_ml_ranking(t, k, order) ==
    LET screened        == head(Reorder(t, order), k)
        total_positives == label_sum(t)
        true_positives  == label_sum(screened)
    IN  [recall_at_k    |-> IF total_positives > 0
                            THEN Ratio(true_positives, total_positives) ELSE Zero,
         precision_at_k |-> IF k > 0 THEN Ratio(true_positives, k) ELSE Zero]

\* Scores are numbers in tenths; the floats +inf and -inf are numbers above
\* and below every finite score of the model, the float NaN (a null score) is
\* NullScore, which only isnull() reads.
PosInf == 1000
NegInf == 0 - 1000
NullScore == 2000

\* Series.isnull() of a score cell: infinities are not null
isnull(score) == score = NullScore

\* _validate_inputs(df): the exception raised, "" for none.  dtype is the
\* dtype of the label column (a boolean column that holds a null is stored
\* with dtype object).
validate_inputs(t, dtype) ==
    IF ~HasColumn(t, "eligibility_heuristic_label")
          \/ ~HasColumn(t, "eligibility_ml_score")
    THEN "ValueError"
    ELSE IF dtype # "bool"
    THEN "TypeError"
    ELSE IF \E i \in 1..Len(t) : isnull(t[i].eligibility_ml_score)
    THEN "ValueError"
    ELSE ""

\* evaluate_ranking(df, k_values): a heuristic row then an ml row for each K
evaluate_ranking(t, ks, order) ==
    [n \in 1..(2 * Len(ks)) |->
        LET k == ks[(n + 1) \div 2]
        IN  IF n % 2 = 1
            THEN WithColumns(evaluate_heuristic_screening(t, k),
                             [method |-> "heuristic", k |-> k])
            ELSE WithColumns(evaluate_ml_ranking(t, k, order),
                             [method |-> "ml", k |-> k])]

-----------------------------------------------------------------------------
(* code_mapping/stroke_codelist.py, code_mapping/cardiovascular_codelist.py, *)
(* code_mapping/apply_codelists.py.  A Python value is a record with its     *)
(* type: a str carries its characters as a sequence of one-character        *)
(* strings, None is [type |-> "NoneType"], the null marker of a table cell  *)
(* (float nan) is [type |-> "float", value |-> "nan"].                      *)

Str(chars) == [type |-> "str", value |-> chars]
None == [type |-> "NoneType"]
FloatNaN == [type |-> "float", value |-> "nan"]

\* the code system identifiers the classifiers know
ICD9 == Str(<<"I", "C", "D", "9">>)
ICD10 == Str(<<"I", "C", "D", "1", "0">>)

\* truthiness of a value: None and the empty string are falsy, nan is truthy
truthy(v) ==
    IF v.type = "NoneType" THEN FALSE
    ELSE IF v.type = "str" THEN v.value # <<>>
    ELSE TRUE

ICD9_STROKE_PREFIXES ==
    {<<"4", "3", "0">>, <<"4", "3", "1">>, <<"4", "3", "2">>,
     <<"4", "3", "3">>, <<"4", "3", "4">>, <<"4", "3", "5">>,
     <<"4", "3", "6">>}

\* variant: I26 (pulmonary embolism) is listed as a stroke family as well
ICD10_STROKE_PREFIXES_with_I26 ==
    {<<"I", "6", "0">>, <<"I", "6", "1">>, <<"I", "6", "2">>, <<"I", "6", "3">>,
     <<"I", "6", "4">>, <<"G", "4", "5">>, <<"I", "2", "6">>}

ICD10_STROKE_PREFIXES ==
    {<<"G", "4", "5">>, <<"I", "6", "0">>, <<"I", "6", "1">>,
     <<"I", "6", "2">>, <<"I", "6", "3">>, <<"I", "6", "4">>}

ICD9_CARDIOVASCULAR_PREFIXES ==
    {<<"3", "9", "0">>, <<"3", "9", "1">>, <<"3", "9", "2">>,
     <<"3", "9", "3">>, <<"3", "9", "4">>, <<"3", "9", "5">>,
     <<"3", "9", "6">>, <<"3", "9", "7">>, <<"3", "9", "8">>,
     <<"4", "0", "1">>, <<"4", "0", "2">>, <<"4", "0", "3">>,
     <<"4", "0", "4">>, <<"4", "0", "5">>, <<"4", "1", "0">>,
     <<"4", "1", "1">>, <<"4", "1", "2">>, <<"4", "1", "3">>,
     <<"4", "1", "4">>, <<"4", "1", "5">>, <<"4", "1", "6">>,
     <<"4", "1", "7">>, <<"4", "2", "0">>, <<"4", "2", "1">>,
     <<"4", "2", "2">>, <<"4", "2", "3">>, <<"4", "2", "4">>,
     <<"4", "2", "5">>, <<"4", "2", "6">>, <<"4", "2", "7">>,
     <<"4", "2", "8">>, <<"4", "2", "9">>}

ICD10_CARDIOVASCULAR_PREFIXES ==
    {<<"I", "0", "0">>, <<"I", "0", "1">>, <<"I", "0", "2">>,
     <<"I", "0", "3">>, <<"I", "0", "4">>, <<"I", "0", "5">>,
     <<"I", "0", "6">>, <<"I", "0", "7">>, <<"I", "0", "8">>,
     <<"I", "0", "9">>, <<"I", "1", "0">>, <<"I", "1", "1">>,
     <<"I", "1", "2">>, <<"I", "1", "3">>, <<"I", "1", "5">>,
     <<"I", "2", "0">>, <<"I", "2", "1">>, <<"I", "2", "2">>,
     <<"I", "2", "3">>, <<"I", "2", "4">>, <<"I", "2", "5">>,
     <<"I", "2", "6">>, <<"I", "2", "7">>, <<"I", "2", "8">>,
     <<"I", "3", "0">>, <<"I", "3", "1">>, <<"I", "3", "2">>,
     <<"I", "3", "3">>, <<"I", "3", "4">>, <<"I", "3", "5">>,
     <<"I", "3", "6">>, <<"I", "3", "7">>, <<"I", "3", "8">>,
     <<"I", "3", "9">>, <<"I", "4", "0">>, <<"I", "4", "1">>,
     <<"I", "4", "2">>, <<"I", "4", "3">>, <<"I", "4", "4">>,
     <<"I", "4", "5">>, <<"I", "4", "6">>, <<"I", "4", "7">>,
     <<"I", "4", "8">>, <<"I", "4", "9">>, <<"I", "5", "0">>,
     <<"I", "5", "1">>}

IsSpace(ch) == ch = " "

RECURSIVE lstrip(_)
lstrip(chars) ==
    IF chars # <<>> /\ IsSpace(Head(chars)) THEN lstrip(Tail(chars)) ELSE chars

RECURSIVE rstrip(_)
rstrip(chars) ==
    IF chars # <<>> /\ IsSpace(chars[Len(chars)])
    THEN rstrip(SubSeq(chars, 1, Len(chars) - 1))
    ELSE chars

\* variant: only trailing whitespace is removed
strip_trailing_only(chars) == rstrip(chars)

\* str.strip()
strip(chars) == rstrip(lstrip(chars))

\* str.upper(), on the letters of the model
upper_char(ch) ==
    IF ch = "i" THEN "I" ELSE IF ch = "g" THEN "G" ELSE ch
upper(chars) == [k \in 1..Len(chars) |-> upper_char(chars[k])]

\* str.startswith(prefix)
startswith(chars, prefix) ==
    Len(prefix) <= Len(chars) /\ SubSeq(chars, 1, Len(prefix)) = prefix

\* _matches_prefix(code, prefixes)
matches_prefix(chars, prefixes) == \E prefix \in prefixes : startswith(chars, prefix)

\* the body shared by is_stroke_code and is_cardiovascular_code: the result
\* [raises, returns], raises "" when the call returns
classify(diagnosis_code, code_system, icd9_prefixes, icd10_prefixes) ==
    IF ~truthy(diagnosis_code) \/ ~truthy(code_system)
    THEN [raises |-> "", returns |-> FALSE]
    ELSE IF diagnosis_code.type # "str"
    THEN [raises |-> "AttributeError", returns |-> FALSE]
    ELSE LET code == upper(strip(diagnosis_code.value)) IN
         IF code_system = ICD9
         THEN [raises |-> "", returns |-> matches_prefix(code, icd9_prefixes)]
         ELSE IF code_system = ICD10
         THEN [raises |-> "", returns |-> matches_prefix(code, icd10_prefixes)]
         ELSE [raises |-> "ValueError", returns |-> FALSE]

\* is_stroke_code(diagnosis_code, code_system)
is_stroke_code(diagnosis_code, code_system) ==
    classify(diagnosis_code, code_system,
             ICD9_STROKE_PREFIXES, ICD10_STROKE_PREFIXES)

\* is_cardiovascular_code(diagnosis_code, code_system)
is_cardiovascular_code(diagnosis_code, code_system) ==
    classify(diagnosis_code, code_system,
             ICD9_CARDIOVASCULAR_PREFIXES, ICD10_CARDIOVASCULAR_PREFIXES)

\* _apply_codelists(df) on the rows of a table: the stroke flags are computed
\* first, then the cardiovascular flags; the first exception propagates.  On
\* a table without rows df.apply(..., axis=1) returns a frame, not a column,
\* and its assignment to df["is_stroke_code"] raises ValueError
apply_codelists(t) ==
    LET stroke == [i \in 1..Len(t) |->
                      is_stroke_code(t[i].diagnosis_code, t[i].code_system)]
        cvd    == [i \in 1..Len(t) |->
                      is_cardiovascular_code(t[i].diagnosis_code, t[i].code_system)]
        failed == {i \in 1..Len(t) : stroke[i].raises # ""}
        first  == CHOOSE i \in failed : \A j \in failed : i <= j
    IN  IF Len(t) = 0
        THEN [raises |-> "ValueError", returns |-> <<>>]
        ELSE IF failed # {}
        THEN [raises |-> stroke[first].raises, returns |-> <<>>]
        ELSE [raises |-> "",
              returns |-> [i \in 1..Len(t) |->
                  WithColumns(t[i],
                    [is_stroke_code |-> stroke[i].returns,
                     is_cardiovascular_code |-> cvd[i].returns])]]

-----------------------------------------------------------------------------
(* config/study_loader.py.  A configuration value is a typed record: a     *)
(* dict carries its mapping from keys to values, any other value is a leaf. *)

Dict(mapping) == [type |-> "dict", value |-> mapping]
Leaf(v) == [type |-> "int", value |-> v]

\* isinstance(value, dict)
isinstance_dict(v) == v.type = "dict"

\* variant: only the keys of the defaults are kept
merged_keys_defaults_only(user_config, defaults) == DOMAIN defaults

\* the keys of merged after both loops of _apply_defaults
merged_keys(user_config, defaults) == DOMAIN defaults \cup DOMAIN user_config

\* _apply_defaults(user_config, defaults), both mappings from keys to values
RECURSIVE apply_defaults(_, _)
apply_defaults(user_config, defaults) ==
    [key \in merged_keys(user_config, defaults) |->
        IF key \in DOMAIN defaults
        THEN IF key \notin DOMAIN user_config
             THEN defaults[key]
             ELSE IF isinstance_dict(defaults[key])
                       /\ isinstance_dict(user_config[key])
             THEN Dict(apply_defaults(user_config[key].value, defaults[key].value))
             ELSE user_config[key]
        ELSE user_config[key]]

-----------------------------------------------------------------------------
(* phenotypes/stroke_phenotype.py, phenotypes/cardiovascular_phenotype.py *)

\* the values of a set of numbers in ascending order
RECURSIVE Ascending(_)
Ascending(S) ==
    IF S = {} THEN <<>>
    ELSE LET m == CHOOSE x \in S : \A y \in S : x <= y
         IN  <<m>> \o Ascending(S \ {m})

\* df[df[flag]]
Flagged(t, flag) == SelectSeq(t, LAMBDA r : r[flag])

\* df.groupby("hadm_id").size(): the keys, and the size of one group
group_keys(t) == {t[i].hadm_id : i \in 1..Len(t)}
group_size(t, id) == Cardinality({i \in 1..Len(t) : t[i].hadm_id = id})

\* variant: only the admissions with a flagged row are kept
concat_index_flagged_only(t, flag) == Ascending(group_keys(Flagged(t, flag)))

\* index of pd.concat([total_dx, flagged_dx], axis=1): the union of the keys
\* of the two group sizes
concat_index(t, flag) ==
    Ascending(group_keys(t) \cup group_keys(Flagged(t, flag)))

\* variant: the share of rows that are not flagged
code_density_of_unflagged(count, total) ==
    IF total = 0 THEN Zero ELSE Ratio(total - count, total)

\* count / total.replace(0, nan), then fillna(0.0)
code_density(count, total) ==
    IF total = 0 THEN Zero ELSE Ratio(count, total)

\* variant: any row at position 1 counts
primary_mask_any_code(row) == row.seq_num = <<1>>

\* (df["seq_num"] == 1) & df["is_stroke_code"]: a null seq_num compares False
primary_mask(row) == row.seq_num = <<1>> /\ row.is_stroke_code

\* stroke_phenotype._aggregate_to_admission(df): one record per key, in key
\* order
stroke_aggregate_to_admission(t) ==
    LET index == concat_index(t, "is_stroke_code")
    IN  [n \in 1..Len(index) |->
            LET id      == index[n]
                total   == group_size(t, id)
                count   == group_size(Flagged(t, "is_stroke_code"), id)
                primary == IF HasColumn(t, "seq_num")
                           THEN group_size(SelectSeq(t, primary_mask), id)
                           ELSE 0
            IN  [hadm_id                |-> id,
                 total_diagnosis_count  |-> total,
                 stroke_code_count      |-> count,
                 stroke_code_density    |-> code_density(count, total),
                 has_any_stroke_signal  |-> count > 0,
                 stroke_primary_dx_flag |-> primary # 0]]

\* cardiovascular_phenotype._aggregate_to_admission(df)
cardiovascular_aggregate_to_admission(t) ==
    LET index == concat_index(t, "is_cardiovascular_code")
    IN  [n \in 1..Len(index) |->
            LET id    == index[n]
                total == group_size(t, id)
                count == group_size(Flagged(t, "is_cardiovascular_code"), id)
            IN  [hadm_id                     |-> id,
                 total_diagnosis_count       |-> total,
                 cardiovascular_code_count   |-> count,
                 cardiovascular_code_density |-> code_density(count, total),
                 has_any_cvd_signal          |-> count > 0]]

-----------------------------------------------------------------------------
(* Inputs of the rule functions *)

Restrict(f, S) == [x \in S |-> f[x]]

\* every record that gives some of the keys of one of the records in fulls
Partial(fulls) == UNION {{Restrict(f, S) : S \in SUBSET (DOMAIN f)} : f \in fulls}

AgeValues == {17, 18, 39, 40, 70, 71, 80, 81, 85, 86, 88, 90, 91}
Cells(values) == {NaN} \cup {<<a>> : a \in values}
AgeCells == Cells(AgeValues)
\* ages around the thresholds the exclusion rule and the labelling step read
ExclusionAgeCells == Cells({80, 81, 90, 91})
LabelAgeCells == Cells({17, 18, 85, 86, 90, 91})

AdmissionTypes == {"EMERGENCY", "emergency", "ELECTIVE"}

AgeSections ==
    Partial({[min |-> 40, max |-> 70, hard_exclude |-> 80],
             [min |-> 18, max |-> 90, hard_exclude |-> 85]})

StrokeSections ==
    Partial({[min_code_count |-> 0, require_any_signal |-> FALSE,
              prefer_primary_dx |-> FALSE],
             [min_code_count |-> 2, require_any_signal |-> TRUE,
              prefer_primary_dx |-> TRUE]})

ExclusionSections ==
    Partial({[exclude_without_stroke_signal |-> FALSE,
              exclude_if_age_above_hard_limit |-> FALSE],
             [exclude_without_stroke_signal |-> TRUE,
              exclude_if_age_above_hard_limit |-> TRUE]})

\* tables of 1..MaxRows rows over a set of rows (hadm_id is the row number)
TablesOver(R) ==
    UNION {{[i \in 1..n |-> WithColumns(f[i], [hadm_id |-> i])] : f \in [1..n -> R]}
           : n \in 1..MaxRows}

AgeRows == [age_at_admission : AgeCells]
NoAgeRows == {[admission_type |-> a] : a \in AdmissionTypes}
AgeTables == TablesOver(AgeRows) \cup TablesOver(NoAgeRows)
AgeConfigs ==
    {<<>>} \cup {[age |-> s] : s \in AgeSections}
           \cup {[exclusions |-> [exclude_without_stroke_signal |-> TRUE]]}

StrokeRows ==
    [has_any_stroke_signal : BOOLEAN, stroke_code_count : 0..MaxCount]
    \cup [has_any_stroke_signal : BOOLEAN, stroke_code_count : 0..MaxCount,
          stroke_primary_dx_flag : BOOLEAN]
StrokeTables == TablesOver(StrokeRows)
                \cup TablesOver([has_any_stroke_signal : BOOLEAN])
StrokeConfigs ==
    {<<>>} \cup {[stroke_signal |-> s] : s \in StrokeSections}
           \cup {[age |-> [min |-> 40]]}

ExclusionRows == [age_at_admission : ExclusionAgeCells, has_any_stroke_signal : BOOLEAN]
ExclusionTables == TablesOver(ExclusionRows)
                   \cup TablesOver([has_any_stroke_signal : BOOLEAN])
ExclusionAgeSections == {[hard_exclude |-> 80], [min |-> 40]}
ExclusionConfigs ==
    {<<>>} \cup {[age |-> a] : a \in ExclusionAgeSections}
           \cup {[exclusions |-> e] : e \in ExclusionSections}
           \cup {[age |-> a, exclusions |-> e] :
                    a \in ExclusionAgeSections, e \in ExclusionSections}

\* the joined admissions/phenotype table _apply_heuristics receives: the
\* phenotype columns satisfy has_any_stroke_signal = (stroke_code_count > 0)
SignalColumns ==
    {[has_any_stroke_signal |-> c > 0, stroke_code_count |-> c] : c \in 0..MaxCount}
CvdColumns ==
    {[has_any_cvd_signal |-> c > 0, cardiovascular_code_count |-> c] : c \in {0, 1}}
JoinedRows ==
    {WithColumns(s, WithColumns(v, [admission_type |-> a, age_at_admission |-> g])) :
        s \in SignalColumns, v \in CvdColumns, a \in AdmissionTypes,
        g \in LabelAgeCells}
JoinedRowsNoAge ==
    {WithColumns(s, WithColumns(v, [admission_type |-> a])) :
        s \in SignalColumns, v \in CvdColumns, a \in AdmissionTypes}
\* the joined tables of n rows (hadm_id and subject_id are the row number)
JoinedTables(n) ==
    {[i \in 1..n |-> WithColumns(f[i], [hadm_id |-> i, subject_id |-> i])] :
        f \in [1..n -> JoinedRows] \cup [1..n -> JoinedRowsNoAge]}

\* a table without some of its columns: _apply_heuristics called on a table
\* that was not made by _join_inputs from a validated admissions table
Without(t, cols) ==
    [i \in 1..Len(t) |-> [c \in (DOMAIN t[i]) \ cols |-> t[i][c]]]
DroppedColumns ==
    {{}, {"subject_id"}, {"has_any_cvd_signal", "cardiovascular_code_count"},
     {"subject_id", "has_any_cvd_signal", "cardiovascular_code_count"}}

-----------------------------------------------------------------------------
(* State machine: one action per call of a rule function.  The functions   *)
(* keep no state between calls, so a behaviour is one call on fresh inputs *)

\* the phenotype files before any is written: a file that does not exist is <<>>
NoPhenotypes == [stroke |-> <<>>, cvd |-> <<>>]

Init ==
    /\ op = "init"
    /\ df = <<>>
    /\ study_config = <<>>
    /\ out = <<>>
    /\ err = ""
    /\ passed = <<>>
    /\ scored = <<>>
    /\ label_dtype = "bool"
    /\ k_values = <<>>
    /\ ranked = <<>>
    /\ results = <<>>
    /\ raised = ""
    /\ annotated = <<>>
    /\ phenotypes = NoPhenotypes
    /\ heuristics = <<>>
    /\ features = <<>>

\* passed holds the arguments as they were when the call was made; df and
\* study_config are the caller's objects after the call
Call(name, t, cfg, raises, result) ==
    /\ op' = name
    /\ df' = t
    /\ study_config' = cfg
    /\ passed' = [df |-> t, study_config |-> cfg]
    /\ err' = IF raises THEN "ValueError" ELSE ""
    /\ out' = IF raises THEN <<>> ELSE result

\* DataFrame.to_csv(path, index=False): the file holds the table just written
to_csv(existing, table) == table

\* the first exception of a sequence of steps ("" when none raises)
FirstRaised(errors) ==
    LET failed == {i \in 1..Len(errors) : errors[i] # ""}
    IN  IF failed = {} THEN ""
        ELSE errors[CHOOSE i \in failed : \A j \in failed : i <= j]

\* a call that raises error ("" for none) or returns result
CallResult(name, input, error, result) ==
    /\ op' = name
    /\ df' = input
    /\ study_config' = <<>>
    /\ passed' = [df |-> input, study_config |-> <<>>]
    /\ err' = error
    /\ out' = IF error # "" THEN <<>> ELSE result

\* variant: the flags are assigned on the caller's table itself
caller_table_in_place(t, working) == working

\* df = df.copy() before the first assignment: the function's df is a new
\* table, the caller's table keeps its columns and values
caller_table(t, working) == t

\* a call of a rule function: the checks that raise come before the copy
CallRule(name, t, cfg, raises, result) ==
    /\ op' = name
    /\ df' = IF raises THEN t ELSE caller_table(t, result)
    /\ study_config' = cfg
    /\ passed' = [df |-> t, study_config |-> cfg]
    /\ err' = IF raises THEN "ValueError" ELSE ""
    /\ out' = IF raises THEN <<>> ELSE result

ApplyAgeRules ==
    /\ op = "init"
    /\ \E t \in AgeTables, cfg \in AgeConfigs :
          CallRule("apply_age_rules", t, cfg, FALSE, apply_age_rules(t, cfg))
    /\ UNCHANGED <<rankVars, pipeVars>>

ApplyStrokeRules ==
    /\ op = "init"
    /\ \E t \in StrokeTables, cfg \in StrokeConfigs :
          CallRule("apply_stroke_rules", t, cfg, stroke_rules_missing(t),
               apply_stroke_rules(t, cfg))
    /\ UNCHANGED <<rankVars, pipeVars>>

ApplyExclusionRules ==
    /\ op = "init"
    /\ \E t \in ExclusionTables, cfg \in ExclusionConfigs :
          CallRule("apply_exclusion_rules", t, cfg, exclusion_rules_missing(t),
               apply_exclusion_rules(t, cfg))
    /\ UNCHANGED <<rankVars, pipeVars>>

\* a Python float argument: its value is a cell, NaN for float("nan")
Float(cell) == [type |-> "float", value |-> cell]

\* is_age_eligible(age, study_config): None is eligible; otherwise the
\* Python comparisons, which are False for nan
is_age_eligible(age, cfg) ==
    IF age.type = "NoneType" THEN TRUE
    ELSE IF CellGt(age.value, age_hard_exclude(cfg)) THEN FALSE
    ELSE CellGe(age.value, age_min(cfg)) /\ CellLe(age.value, age_max(cfg))

ScalarAges == {None} \cup {Float(c) : c \in AgeCells}

IsAgeEligible ==
    /\ op = "init"
    /\ \E age \in ScalarAges, cfg \in AgeConfigs :
          Call("is_age_eligible", age, cfg, FALSE, is_age_eligible(age, cfg))
    /\ UNCHANGED <<rankVars, pipeVars>>

ApplyHeuristics ==
    /\ op = "init"
    /\ \E n \in 1..MaxRows : \E joined \in JoinedTables(n), drop \in DroppedColumns :
          LET t == Without(joined, drop)
              r == apply_heuristics(t)
          IN  CallResult("_apply_heuristics", t, r.raises, r.returns)
    /\ UNCHANGED <<rankVars, pipeVars>>

NextRules ==
    \/ ApplyAgeRules
    \/ ApplyStrokeRules
    \/ ApplyExclusionRules
    \/ ApplyHeuristics
    \/ IsAgeEligible

SpecRules == Init /\ [][NextRules]_vars

-----------------------------------------------------------------------------
(* What a study configuration gives for a key, else the documented default: *)
(* the reading of the configuration the specification uses.                 *)

Configured(cfg, section, key, default) ==
    IF section \in DOMAIN cfg /\ key \in DOMAIN cfg[section]
    THEN cfg[section][key]
    ELSE default

Returned(name) == op = name /\ err = ""

\* Two flags _apply_heuristics assigns and does not return, read from a row
\* it returns: stroke_signal_ok is the column has_any_stroke_signal it was
\* assigned from, and age_excluded is the column excluded that was assigned
\* from it.  A row of apply_age_rules carries age_excluded itself.
stroke_signal_ok(row) == row.has_any_stroke_signal
age_excluded(row) ==
    IF "age_excluded" \in DOMAIN row THEN row.age_excluded ELSE row.excluded

\* the table has every column _apply_heuristics reads or returns, the age
\* column apart
HasHeuristicsInputs(t) ==
    \A c \in {"subject_id", "hadm_id", "admission_type", "has_any_stroke_signal",
              "stroke_code_count", "has_any_cvd_signal",
              "cardiovascular_code_count"} : HasColumn(t, c)

-----------------------------------------------------------------------------
(* Properties of the rule engine *)

\* C1: every row of _apply_heuristics has eligibility_heuristic_label true
\* exactly when age_in_range, stroke_signal_ok and admission_ok are true and
\* excluded is false (null age and absent age column included).
C1_LabelIsExactConjunction ==
    Returned("_apply_heuristics") =>
        \A i \in 1..Len(out) :
            out[i].eligibility_heuristic_label
              <=> (out[i].age_in_range /\ stroke_signal_ok(out[i])
                   /\ out[i].admission_ok /\ ~out[i].excluded)

C1_Witness ==
    /\ Returned("_apply_heuristics")
    /\ HasColumn(df, "age_at_admission")
    /\ \E i \in 1..Len(out) :
          /\ df[i].age_at_admission # NaN
          /\ out[i].age_in_range /\ stroke_signal_ok(out[i])
          /\ out[i].admission_ok /\ ~out[i].excluded
          /\ out[i].eligibility_heuristic_label

\* C3: apply_exclusion_rules sets excluded exactly when (age sub-rule enabled
\* and age > configured hard-exclusion age) or (no-stroke-signal sub-rule
\* enabled and has_any_stroke_signal false); sub-rules are enabled unless the
\* configuration says otherwise.
C3_ExcludedIffConfiguredSubRuleMatches ==
    Returned("apply_exclusion_rules") =>
        \A i \in 1..Len(out) :
            out[i].excluded
              <=> \/ /\ Configured(study_config, "exclusions",
                                   "exclude_if_age_above_hard_limit", TRUE)
                     /\ df[i].age_at_admission # NaN
                     /\ df[i].age_at_admission[1]
                          > Configured(study_config, "age", "hard_exclude", 90)
                  \/ /\ Configured(study_config, "exclusions",
                                   "exclude_without_stroke_signal", TRUE)
                     /\ ~df[i].has_any_stroke_signal

\* C4: in every row apply_exclusion_rules returns, exclusion_reason is
\* non-empty exactly when excluded is true and is a single reason, first
\* match wins: a row over the configured hard age limit (age sub-rule
\* enabled) that also has no stroke signal gets "age_above_hard_limit", a row
\* excluded only for the missing stroke signal gets "no_stroke_signal".
C4_ReasonFirstMatchWins ==
    Returned("apply_exclusion_rules") =>
        \A i \in 1..Len(out) :
            LET overLimit ==
                    /\ Configured(study_config, "exclusions",
                                  "exclude_if_age_above_hard_limit", TRUE)
                    /\ df[i].age_at_admission # NaN
                    /\ df[i].age_at_admission[1]
                         > Configured(study_config, "age", "hard_exclude", 90)
                noSignal ==
                    /\ Configured(study_config, "exclusions",
                                  "exclude_without_stroke_signal", TRUE)
                    /\ ~df[i].has_any_stroke_signal
            IN  /\ (out[i].exclusion_reason # "") <=> out[i].excluded
                /\ out[i].exclusion_reason
                      \in {"", "age_above_hard_limit", "no_stroke_signal"}
                /\ (overLimit /\ noSignal)
                      => out[i].exclusion_reason = "age_above_hard_limit"
                /\ (noSignal /\ ~overLimit)
                      => out[i].exclusion_reason = "no_stroke_signal"

\* C5: for a non-null age, apply_age_rules gives age_in_range = (min <= age
\* <= max), both bounds inclusive, and age_excluded = (age > hard_exclude),
\* with the configured values and the defaults 18, 85, 90 for those not given.
C5_AgeFlagsFollowConfiguredBounds ==
    (Returned("apply_age_rules") /\ HasColumn(df, "age_at_admission")) =>
        \A i \in 1..Len(out) :
            df[i].age_at_admission # NaN =>
                LET age == df[i].age_at_admission[1] IN
                /\ out[i].age_in_range
                     <=> (Configured(study_config, "age", "min", 18) <= age
                          /\ age <= Configured(study_config, "age", "max", 85))
                /\ out[i].age_excluded
                     <=> age > Configured(study_config, "age", "hard_exclude", 90)

C5_Witness ==
    /\ Returned("apply_age_rules")
    /\ "age" \in DOMAIN study_config
    /\ DOMAIN study_config.age = {"max"}
    /\ HasColumn(df, "age_at_admission")
    /\ \E i \in 1..Len(out) :
          /\ df[i].age_at_admission = <<study_config.age.max>>
          /\ out[i].age_in_range
          /\ ~out[i].age_excluded

\* C6: without an age_at_admission column the age rule does not fail and
\* gives every row age_in_range = true and age_excluded = false, for every
\* configuration, in apply_age_rules and in _apply_heuristics.
C6_AbsentAgeColumnIncludes ==
    (/\ op \in {"apply_age_rules", "_apply_heuristics"}
     /\ ~HasColumn(df, "age_at_admission")
     /\ op = "_apply_heuristics" => HasHeuristicsInputs(df)) =>
        /\ err = ""
        /\ Len(out) = Len(df)
        /\ \A i \in 1..Len(out) : out[i].age_in_range /\ ~age_excluded(out[i])

C6_Witness ==
    /\ Returned("apply_age_rules")
    /\ ~HasColumn(df, "age_at_admission")
    /\ "age" \in DOMAIN study_config
    /\ Len(out) >= 1
    /\ out[1].age_in_range

\* C7: apply_stroke_rules gives stroke_signal_ok = (require_any_signal =>
\* has_any_stroke_signal) /\ (stroke_code_count >= min_code_count), defaults
\* min_code_count = 1 and require_any_signal = true.
C7_StrokeSignalOk ==
    Returned("apply_stroke_rules") =>
        \A i \in 1..Len(out) :
            out[i].stroke_signal_ok
              <=> /\ Configured(study_config, "stroke_signal",
                                "require_any_signal", TRUE)
                       => df[i].has_any_stroke_signal
                  /\ df[i].stroke_code_count
                       >= Configured(study_config, "stroke_signal",
                                     "min_code_count", 1)

C7_Witness ==
    /\ Returned("apply_stroke_rules")
    /\ Configured(study_config, "stroke_signal", "require_any_signal", TRUE) = FALSE
    /\ Configured(study_config, "stroke_signal", "min_code_count", 1) = 0
    /\ \E i \in 1..Len(out) :
          /\ ~df[i].has_any_stroke_signal
          /\ df[i].stroke_code_count = 0
          /\ out[i].stroke_signal_ok

\* the flag columns a rule function adds
AddedFlags(name) ==
    IF name = "apply_age_rules" THEN {"age_in_range", "age_excluded"}
    ELSE IF name = "apply_stroke_rules"
    THEN {"stroke_signal_ok", "stroke_primary_preferred"}
    ELSE {"excluded", "exclusion_reason"}

RuleCalled ==
    op \in {"apply_age_rules", "apply_stroke_rules", "apply_exclusion_rules"}

\* C21: the three rule functions never modify the table or the configuration
\* passed to them: after the call, returned or raised, the caller's table
\* has the columns and values it had before and the added flags exist only
\* in the returned table.
C21_InputsNotMutated ==
    RuleCalled =>
        /\ df = passed.df
        /\ study_config = passed.study_config
        /\ err = "" =>
              \A i \in 1..Len(out) :
                  /\ AddedFlags(op) \subseteq DOMAIN out[i]
                  /\ AddedFlags(op) \cap DOMAIN df[i] = {}
                  /\ \A c \in DOMAIN df[i] : out[i][c] = df[i][c]

C21_Witness ==
    /\ op = "apply_exclusion_rules"
    /\ err = ""
    /\ out[1].excluded
    /\ out[1].exclusion_reason = "age_above_hard_limit"
    /\ DOMAIN df[1] = {"hadm_id", "age_at_admission", "has_any_stroke_signal"}

\* the defaults the specification documents for the three rule sections
DocumentedDefaults ==
    [age           |-> [min |-> 18, max |-> 85, hard_exclude |-> 90],
     stroke_signal |-> [min_code_count |-> 1, require_any_signal |-> TRUE,
                        prefer_primary_dx |-> TRUE],
     exclusions    |-> [exclude_without_stroke_signal |-> TRUE,
                        exclude_if_age_above_hard_limit |-> TRUE]]

\* a configuration with the documented default for every value it lacks
Completed(cfg) ==
    [section \in DOMAIN DocumentedDefaults |->
        IF section \in DOMAIN cfg
        THEN cfg[section] @@ DocumentedDefaults[section]
        ELSE DocumentedDefaults[section]]

\* C20: each rule function, called on a well-formed table with no study
\* configuration or with one that lacks or partly fills the rule's section,
\* does not raise and produces exactly the flags it produces with the
\* documented defaults substituted for the missing values.
C20_MissingConfigMeansDefaults ==
    /\ op = "apply_age_rules" =>
          (err = "" /\ out = apply_age_rules(df, Completed(study_config)))
    /\ (op = "apply_stroke_rules" /\ ~stroke_rules_missing(df)) =>
          (err = "" /\ out = apply_stroke_rules(df, Completed(study_config)))
    /\ (op = "apply_exclusion_rules" /\ ~exclusion_rules_missing(df)) =>
          (err = "" /\ out = apply_exclusion_rules(df, Completed(study_config)))

-----------------------------------------------------------------------------
(* Ranking evaluator: inputs and the evaluate_ranking call.  Scores are     *)
(* tenths (9 is 0.9).                                                       *)

ScoredRows == [eligibility_heuristic_label : BOOLEAN,
               eligibility_ml_score : 0..MaxScore]

\* labels [T,F,T,F], scores [0.9,0.8,0.3,0.1]
ScenarioTable ==
    <<[eligibility_heuristic_label |-> TRUE,  eligibility_ml_score |-> 9],
      [eligibility_heuristic_label |-> FALSE, eligibility_ml_score |-> 8],
      [eligibility_heuristic_label |-> TRUE,  eligibility_ml_score |-> 3],
      [eligibility_heuristic_label |-> FALSE, eligibility_ml_score |-> 1]>>

ScoredTables ==
    UNION {[1..n -> ScoredRows] : n \in 0..MaxScored} \cup {ScenarioTable}

\* one capacity, or two in increasing order
KValues ==
    {<<a>> : a \in 0..MaxK}
    \cup {ks \in {<<a, b>> : a, b \in 0..MaxK} : ks[1] < ks[2]}

\* tables with an infinite or null score, or without the score column
MaxSpecial == 2
SpecialRows ==
    [eligibility_heuristic_label : BOOLEAN,
     eligibility_ml_score : {NegInf, 1, PosInf, NullScore}]
SpecialTables ==
    UNION {[1..n -> SpecialRows] : n \in 1..MaxSpecial}
    \cup {<<[eligibility_heuristic_label |-> b]>> : b \in BOOLEAN}

\* a table and the dtype of its label column
Frames ==
    {<<t, "bool">> : t \in ScoredTables \cup SpecialTables}
    \cup {<<t, d>> : t \in {u \in ScoredTables : Len(u) = 1}, d \in {"object", "int64"}}

EvaluateRanking ==
    /\ k_values = <<>>
    /\ \E f \in Frames :
          LET t == f[1]
              error == validate_inputs(t, f[2])
          IN  /\ scored' = t
              /\ label_dtype' = f[2]
              /\ raised' = error
              /\ IF error # ""
                 THEN /\ ranked' = <<>>
                      /\ results' = <<>>
                      /\ \E ks \in KValues : k_values' = ks
                 ELSE \E order \in sort_values(t) :
                         /\ ranked' = order
                         /\ \E ks \in KValues :
                               /\ k_values' = ks
                               /\ results' = evaluate_ranking(t, ks, order)
    /\ UNCHANGED <<ruleVars, pipeVars>>

NextRanking == EvaluateRanking

SpecRanking == Init /\ [][NextRanking]_vars

\* tables for the calls of the heuristic-only strategy alone: it reads the
\* label column only, the scores are the lowest and the highest of the model
ScreeningTables ==
    UNION {[1..n -> [eligibility_heuristic_label : BOOLEAN,
                     eligibility_ml_score : {0, MaxScore}]] : n \in 0..MaxScored}

\* _evaluate_heuristic_screening(df, k) called on a table and then, with the
\* same K, on the same rows in another order; ranked is that order
EvaluateHeuristicScreening ==
    /\ \/ /\ op = "init"
          /\ \E t \in ScreeningTables, k \in 0..MaxK :
                /\ scored' = t
                /\ k_values' = <<k>>
                /\ ranked' = <<>>
                /\ results' = <<WithColumns(evaluate_heuristic_screening(t, k),
                                            [method |-> "heuristic", k |-> k])>>
       \/ /\ op = "_evaluate_heuristic_screening"
          /\ Len(results) = 1
          /\ \E p \in Permutations_(Len(scored)) :
                LET t == Reorder(scored, p)
                    k == k_values[1]
                IN  /\ scored' = t
                    /\ k_values' = k_values
                    /\ ranked' = p
                    /\ results' = Append(results,
                           WithColumns(evaluate_heuristic_screening(t, k),
                                       [method |-> "heuristic", k |-> k]))
    /\ op' = "_evaluate_heuristic_screening"
    /\ UNCHANGED <<df, study_config, out, err, passed, label_dtype, raised, pipeVars>>

NextScreening == EvaluateHeuristicScreening

SpecScreening == Init /\ [][NextScreening]_vars

-----------------------------------------------------------------------------
(* Properties of the ranking evaluator *)

Evaluated == results # <<>>

\* number of heuristic-positive rows of the scored table
P == Cardinality({i \in 1..Len(scored) : scored[i].eligibility_heuristic_label})

\* the result rows of one method
ResultsOf(method) == {n \in 1..Len(results) : results[n].method = method}

\* C8: for P heuristic-positive rows and every K >= 0 the heuristic-only
\* strategy reports recall_at_k = min(K, P) / P (0.0 when P = 0) and
\* precision_at_k = min(K, P) / K (0.0 when K = 0).
C8_HeuristicMetrics ==
    Evaluated =>
        /\ Cardinality(ResultsOf("heuristic")) = Len(k_values)
        /\ \A n \in ResultsOf("heuristic") :
              LET K == results[n].k IN
              /\ K = k_values[(n + 1) \div 2]
              /\ results[n].recall_at_k
                    = IF P = 0 THEN Zero ELSE Ratio(Min(K, P), P)
              /\ results[n].precision_at_k
                    = IF K = 0 THEN Zero ELSE Ratio(Min(K, P), K)

C8_Witness ==
    /\ Evaluated
    /\ P = 3
    /\ \E n \in ResultsOf("heuristic") :
          /\ results[n].k = 2
          /\ results[n].recall_at_k = <<2, 3>>
          /\ results[n].precision_at_k = <<1, 1>>
    /\ \E n \in ResultsOf("heuristic") :
          /\ results[n].k = 4
          /\ results[n].precision_at_k = <<3, 4>>

\* rows the score-ranked strategy takes for capacity K (indices into scored)
Taken(K) == {ranked[i] : i \in 1..Min(K, Len(scored))}

TP(K) == Cardinality({r \in Taken(K) : scored[r].eligibility_heuristic_label})

\* C9: the score-ranked strategy takes the K rows with the highest score (all
\* rows when K exceeds the row count) and reports recall_at_k = TP / P and
\* precision_at_k = TP / K (recall 0.0 when P = 0, precision 0.0 when K = 0);
\* for labels [T,F,T,F], scores [0.9,0.8,0.3,0.1], K = 2 both are 0.5.
C9_MlMetrics ==
    Evaluated =>
        /\ Cardinality(ResultsOf("ml")) = Len(k_values)
        /\ \A n \in ResultsOf("ml") :
              LET K == results[n].k IN
              /\ K = k_values[n \div 2]
              /\ Cardinality(Taken(K)) = Min(K, Len(scored))
              /\ \A r \in Taken(K), q \in (1..Len(scored)) \ Taken(K) :
                    scored[r].eligibility_ml_score >= scored[q].eligibility_ml_score
              /\ results[n].recall_at_k
                    = IF P = 0 THEN Zero ELSE Ratio(TP(K), P)
              /\ results[n].precision_at_k
                    = IF K = 0 THEN Zero ELSE Ratio(TP(K), K)
              /\ (scored = ScenarioTable /\ K = 2) =>
                    /\ results[n].recall_at_k = <<1, 2>>
                    /\ results[n].precision_at_k = <<1, 2>>

C9_Witness ==
    /\ Evaluated
    /\ scored = ScenarioTable
    /\ \E n \in ResultsOf("ml") :
          /\ results[n].k = 2
          /\ results[n].recall_at_k = <<1, 2>>
          /\ results[n].precision_at_k = <<1, 2>>

\* C10: under ties the ranking keeps the tied rows in their original table
\* order (stable sort), so recall_at_k and precision_at_k of the score-ranked
\* strategy are those of the stable order, also when a tie straddles
\* position K and the tied rows carry different labels.
C10_TiesKeepTableOrder ==
    Evaluated =>
        \A n \in ResultsOf("ml") :
            LET stable == evaluate_ml_ranking(scored, results[n].k,
                                              stable_order(scored))
            IN  /\ results[n].recall_at_k = stable.recall_at_k
                /\ results[n].precision_at_k = stable.precision_at_k

\* a score that is not a finite number
NonFinite(score) == score \in {PosInf, NegInf}

\* C11: evaluate_ranking raises, before any metric is computed, for every
\* table whose label column is not boolean or holds nulls, or whose score
\* column holds a null or an infinite value; no result table is returned.
C11_InvalidTablesRejected ==
    (k_values # <<>> /\ HasColumn(scored, "eligibility_ml_score")
       /\ (\/ label_dtype # "bool"
           \/ \E i \in 1..Len(scored) :
                 \/ isnull(scored[i].eligibility_ml_score)
                 \/ NonFinite(scored[i].eligibility_ml_score)))
      => (raised # "" /\ results = <<>>)

-----------------------------------------------------------------------------
(* Code classifier: diagnosis codes, code systems and the classifier calls. *)

MaxCodeLen == 4

SeqsOver(chars, n) == UNION {[1..k -> chars] : k \in 0..n}

\* codes written with the characters of I62 (stroke), I22 and I26
\* (cardiovascular), I66 (neither) and of 432..434 (stroke), 422..424
\* (cardiovascular), 444 (neither), in either letter case, with blanks
CodeChars10 == {" ", "i", "I", "6", "2"}
CodeChars9 == {" ", "4", "3", "2"}
Codes ==
    {Str(c) : c \in SeqsOver(CodeChars10, MaxCodeLen)
                      \cup SeqsOver(CodeChars9, MaxCodeLen)}
    \cup {None, FloatNaN}

\* a few codes for the calls with a missing or unknown code system
FewCodes ==
    {Str(<<>>), Str(<<" ">>), Str(<<"I", "6", "2">>), Str(<<"4", "3", "3">>),
     None, FloatNaN}
OtherSystems ==
    {Str(<<"I", "C", "D", "1", "1">>), Str(<<"i", "c", "d", "9">>), Str(<<>>),
     None, FloatNaN}

ClassifierInputs ==
    {[diagnosis_code |-> c, code_system |-> y] : c \in Codes, y \in {ICD9, ICD10}}
    \cup {[diagnosis_code |-> c, code_system |-> y] :
              c \in FewCodes, y \in OtherSystems}

IsStrokeCode ==
    /\ op = "init"
    /\ \E x \in ClassifierInputs :
          LET r == is_stroke_code(x.diagnosis_code, x.code_system)
          IN  CallResult("is_stroke_code", x, r.raises, r.returns)
    /\ UNCHANGED <<rankVars, pipeVars>>

IsCardiovascularCode ==
    /\ op = "init"
    /\ \E x \in ClassifierInputs :
          LET r == is_cardiovascular_code(x.diagnosis_code, x.code_system)
          IN  CallResult("is_cardiovascular_code", x, r.raises, r.returns)
    /\ UNCHANGED <<rankVars, pipeVars>>

\* _apply_codelists on a diagnoses table of one row or of no row
ApplyCodelists ==
    /\ op = "init"
    /\ \E t \in {<<WithColumns(x, [hadm_id |-> 1])>> : x \in ClassifierInputs}
                 \cup {<<>>} :
          LET r == apply_codelists(t)
          IN  CallResult("_apply_codelists", t, r.raises, r.returns)
    /\ UNCHANGED <<rankVars, pipeVars>>

\* phenotypes/stroke_phenotype.py: the prefixes derive_stroke_phenotype
\* uses when the annotated table has no is_stroke_code column
STROKE_PREFIXES ==
    {<<"I", "6", "1">>, <<"I", "6", "3">>, <<"I", "6", "4">>}

\* Series.astype(str) on a diagnosis code: a string is kept as it is, a null
\* becomes the text of its value
astype_str(v) ==
    IF v.type = "str" THEN v.value
    ELSE IF v.type = "NoneType" THEN <<"N", "o", "n", "e">>
    ELSE <<"n", "a", "n">>

\* the is_stroke_code column derive_stroke_phenotype assigns itself:
\* (code_system == "ICD10") & diagnosis_code.astype(str).str.startswith(...)
derived_is_stroke_code(diagnosis_code, code_system) ==
    /\ code_system = ICD10
    /\ matches_prefix(astype_str(diagnosis_code), STROKE_PREFIXES)

\* a few codes of the classifier calls and some written with the characters
\* of I61, I63 and I64
PhenotypeCodes ==
    FewCodes \cup {Str(c) : c \in {<<"I", "6", "1">>, <<"I", "6", "3">>,
                                <<"I", "6", "3", "9">>, <<"I", "6", "4">>,
                                <<"i", "6", "3">>, <<" ", "I", "6", "3">>,
                                <<"I", "6", "0">>, <<"G", "4", "5">>}}

\* a row of a file read from disk names its null cells in null_cells (a row
\* without that field has none); the value kept under a null cell is not read
IsNull(row, col) == "null_cells" \in DOMAIN row /\ col \in row.null_cells

\* df[col].isnull().any()
any_null(t, col) == \E i \in 1..Len(t) : IsNull(t[i], col)

\* stroke_phenotype._validate_input(df): ValueError when a required column is
\* missing or a hadm_id is null
stroke_validate_input(t) ==
    IF \E c \in {"subject_id", "hadm_id", "diagnosis_code", "code_system"} :
           ~HasColumn(t, c)
    THEN "ValueError"
    ELSE IF any_null(t, "hadm_id") THEN "ValueError"
    ELSE ""

\* df[df["is_stroke_code"]] in stroke_phenotype._aggregate_to_admission on a
\* table read from a file: a flag column whose cells are all null is read as
\* a float column, which is taken for a list of column labels (KeyError); a
\* flag column with some null cells is read as an object column, which is no
\* boolean mask (ValueError)
stroke_mask(t) ==
    IF ~HasColumn(t, "is_stroke_code") \/ ~any_null(t, "is_stroke_code") THEN ""
    ELSE IF \A i \in 1..Len(t) : IsNull(t[i], "is_stroke_code") THEN "KeyError"
    ELSE "ValueError"

\* derive_stroke_phenotype(path) on the annotated diagnoses file t (<<>> when
\* the file does not exist; a file that exists has a row): FileNotFoundError,
\* else validates, derives is_stroke_code when the file has no such column,
\* aggregates; what it raises and the phenotype table it returns
derive_stroke_phenotype(t) ==
    IF t = <<>>
    THEN [raises |-> "FileNotFoundError", returns |-> <<>>]
    ELSE IF stroke_validate_input(t) # ""
    THEN [raises |-> stroke_validate_input(t), returns |-> <<>>]
    ELSE IF stroke_mask(t) # ""
    THEN [raises |-> stroke_mask(t), returns |-> <<>>]
    ELSE LET flagged ==
               IF HasColumn(t, "is_stroke_code") THEN t
               ELSE [i \in 1..Len(t) |->
                        WithColumns(t[i],
                          [is_stroke_code |->
                               derived_is_stroke_code(t[i].diagnosis_code,
                                                      t[i].code_system)])]
         IN  [raises |-> "", returns |-> stroke_aggregate_to_admission(flagged)]

\* annotated diagnoses files of one row without the codelist flags, and the
\* same without subject_id
UnflaggedDiagnoses ==
    {<<[hadm_id |-> 1, subject_id |-> 1, diagnosis_code |-> c, code_system |-> y]>> :
        c \in PhenotypeCodes, y \in {ICD9, ICD10}}
    \cup {<<[hadm_id |-> 1, diagnosis_code |-> c, code_system |-> ICD10]>> :
              c \in FewCodes}

\* an annotated diagnoses file of one row whose hadm_id is null
NullAdmissionDiagnoses ==
    {<<[hadm_id |-> 1, subject_id |-> 1, diagnosis_code |-> c, code_system |-> ICD10,
        is_stroke_code |-> FALSE, is_cardiovascular_code |-> FALSE,
        null_cells |-> {"hadm_id"}]>> : c \in FewCodes}

\* annotated diagnoses files whose stroke flag is null in every row (one
\* row) or in the first of two rows
NullStrokeFlagDiagnoses ==
    LET row(id, nulls) ==
            [hadm_id |-> id, subject_id |-> id, diagnosis_code |-> Str(<<"I", "6", "2">>),
             code_system |-> ICD10, is_stroke_code |-> TRUE,
             is_cardiovascular_code |-> FALSE, null_cells |-> nulls]
    IN  {<<row(1, {"is_stroke_code"})>>,
         <<row(1, {"is_stroke_code"}), row(1, {})>>,
         <<row(1, {"is_stroke_code"}), row(2, {})>>}

\* the files derive_stroke_phenotype is called on: none, one without the
\* flags, one with a null hadm_id, one with a null stroke flag
StrokeScriptFiles ==
    {<<>>} \cup UnflaggedDiagnoses \cup NullAdmissionDiagnoses
        \cup NullStrokeFlagDiagnoses

\* one call of derive_stroke_phenotype on the file t: the table it returns is
\* the table it writes to stroke_phenotype.csv
CallDeriveStrokePhenotype(t) ==
    LET r == derive_stroke_phenotype(t)
    IN  /\ CallResult("derive_stroke_phenotype", t, r.raises, r.returns)
        /\ phenotypes' = IF r.raises # "" THEN phenotypes
                         ELSE [phenotypes EXCEPT
                                  !.stroke = to_csv(phenotypes.stroke, r.returns)]

\* derive_stroke_phenotype(path), on one of the files above or on the file
\* apply_codelists() writes
DeriveStrokePhenotype ==
    /\ \/ /\ op = "init"
          /\ \E t \in StrokeScriptFiles : CallDeriveStrokePhenotype(t)
       \/ CallDeriveStrokePhenotype(annotated)
    /\ UNCHANGED <<rankVars, annotated, heuristics, features>>

NextClassifier ==
    \/ IsStrokeCode
    \/ IsCardiovascularCode
    \/ ApplyCodelists
    \/ DeriveStrokePhenotype

SpecClassifier == Init /\ [][NextClassifier]_vars

-----------------------------------------------------------------------------
(* Properties of the code classifier *)

Classified == op \in {"is_stroke_code", "is_cardiovascular_code"}

\* the prefix set the specification names for a classifier and a code system
PrefixSet(classifier, system) ==
    IF classifier = "is_stroke_code"
    THEN IF system = ICD9 THEN ICD9_STROKE_PREFIXES ELSE ICD10_STROKE_PREFIXES
    ELSE IF system = ICD9 THEN ICD9_CARDIOVASCULAR_PREFIXES
         ELSE ICD10_CARDIOVASCULAR_PREFIXES

\* a code without its surrounding blanks, letters in upper case
NonBlank(chars) == {k \in 1..Len(chars) : chars[k] # " "}
Trimmed(chars) ==
    IF NonBlank(chars) = {} THEN <<>>
    ELSE LET first == CHOOSE k \in NonBlank(chars) : \A j \in NonBlank(chars) : k <= j
             last  == CHOOSE k \in NonBlank(chars) : \A j \in NonBlank(chars) : j <= k
         IN  SubSeq(chars, first, last)
UpperCased(chars) ==
    [k \in 1..Len(chars) |->
        CASE chars[k] = "i" -> "I" [] chars[k] = "g" -> "G" [] OTHER -> chars[k]]
Canonical(chars) == UpperCased(Trimmed(chars))

IsPrefixOf(p, chars) ==
    Len(p) <= Len(chars) /\ \A k \in 1..Len(p) : chars[k] = p[k]

\* C16: for a code and a code system in {ICD9, ICD10} each classifier returns
\* true exactly when the trimmed, upper-cased code starts with an entry of its
\* prefix set of that system; so the result is the one of the canonical
\* spelling of the code.
C16_PrefixMatchOnNormalisedCode ==
    (Classified /\ df.diagnosis_code.type = "str" /\ df.code_system \in {ICD9, ICD10})
      => LET canonical == Canonical(df.diagnosis_code.value) IN
         /\ err = ""
         /\ out <=> \E p \in PrefixSet(op, df.code_system) : IsPrefixOf(p, canonical)
         /\ out <=> IF op = "is_stroke_code"
                     THEN is_stroke_code(Str(canonical), df.code_system).returns
                     ELSE is_cardiovascular_code(Str(canonical), df.code_system).returns

C16_Witness ==
    /\ op = "is_stroke_code"
    /\ df.diagnosis_code = Str(<<" ", "i", "6", "2">>)
    /\ df.code_system = ICD10
    /\ err = ""
    /\ out = TRUE

\* a value that is an empty or missing code or code system
Missing(v) == v \in {Str(<<>>), None, FloatNaN}

\* C17: the classifier never raises for an empty or missing code (empty
\* string, None, null marker of a table cell) or code system and returns false
\* for both flags then; it raises the unsupported-code-system error exactly
\* when the code is present and the code system is a present string other
\* than "ICD9" and "ICD10".
C17_MissingValuesNeverRaise ==
    /\ Classified =>
          /\ (Missing(df.diagnosis_code) \/ Missing(df.code_system))
                => (err = "" /\ out = FALSE)
          /\ err \in {"", "ValueError"}
          /\ err = "ValueError"
                <=> /\ ~Missing(df.diagnosis_code)
                    /\ ~Missing(df.code_system)
                    /\ df.code_system \notin {ICD9, ICD10}
    /\ (/\ op = "_apply_codelists"
        /\ Missing(df[1].diagnosis_code) \/ Missing(df[1].code_system))
             => /\ err = ""
                /\ ~out[1].is_stroke_code
                /\ ~out[1].is_cardiovascular_code

\* no entry of one set is a prefix of an entry of the other
NoSharedPrefix(stroke, cardiovascular) ==
    \A p \in stroke, q \in cardiovascular : ~IsPrefixOf(p, q) /\ ~IsPrefixOf(q, p)

\* C18: for every code and each of ICD9, ICD10 the two flags are never both
\* true: no stroke prefix of a system is a prefix of, or has as prefix, a
\* cardiovascular prefix of the same system (a fact about the fixed sets,
\* evaluated in the initial state).
C18_FlagsNeverBothTrue ==
    /\ (op = "_apply_codelists" /\ err = "") =>
          \A i \in 1..Len(out) :
              ~(out[i].is_stroke_code /\ out[i].is_cardiovascular_code)
    /\ op = "init" =>
          /\ NoSharedPrefix(ICD9_STROKE_PREFIXES, ICD9_CARDIOVASCULAR_PREFIXES)
          /\ NoSharedPrefix(ICD10_STROKE_PREFIXES, ICD10_CARDIOVASCULAR_PREFIXES)

C18_Witness ==
    /\ op = "_apply_codelists"
    /\ err = ""
    /\ df[1].diagnosis_code = Str(<<"i", "2", "6", " ">>)
    /\ df[1].code_system = ICD10
    /\ out[1].is_cardiovascular_code
    /\ ~out[1].is_stroke_code

-----------------------------------------------------------------------------
(* Configuration merge: user configurations, defaults and _apply_defaults. *)
(* Defaults carry the leaf 0, user values the leaves 1..MaxLeaf.           *)

MaxLeaf == 1

\* mappings that give some of the keys, each with a value of a set
MappingsOver(keys, values) == UNION {[S -> values] : S \in SUBSET keys}

SectionKeys == {"age", "study"}
FieldKeys == {"min", "site"}

\* a leaf, or a section of leaves
ValuesOf(leaves) ==
    {Leaf(v) : v \in leaves}
    \cup {Dict(m) : m \in MappingsOver(FieldKeys, {Leaf(v) : v \in leaves})}

\* a section inside a section inside a section, for the deeper levels
DeepDefaults ==
    {[age |-> Dict([min |-> Dict([low |-> Leaf(0), high |-> Leaf(0)])])],
     [age |-> Dict([min |-> Dict([low |-> Dict([unit |-> Leaf(0)])])])]}
DeepUsers ==
    {[age |-> Dict([min |-> Dict([high |-> Leaf(1), step |-> Leaf(1)])])],
     [age |-> Dict([min |-> Dict([low |-> Dict([scale |-> Leaf(1)])])])]}

DefaultConfigs == MappingsOver(SectionKeys, ValuesOf({0})) \cup DeepDefaults
UserConfigs == MappingsOver(SectionKeys, ValuesOf(1..MaxLeaf)) \cup DeepUsers

ApplyDefaults ==
    /\ op = "init"
    /\ \E u \in UserConfigs, d \in DefaultConfigs :
          CallResult("_apply_defaults", [user_config |-> u, defaults |-> d], "",
                     apply_defaults(u, d))
    /\ UNCHANGED <<rankVars, pipeVars>>

NextConfig == ApplyDefaults

SpecConfig == Init /\ [][NextConfig]_vars

\* merged keeps every default the user does not give and every user key,
\* and merges two mappings under one key by the same rule
RECURSIVE KeepsAll(_, _, _)
KeepsAll(user, defaults, merged) ==
    /\ \A key \in DOMAIN defaults \ DOMAIN user :
          key \in DOMAIN merged /\ merged[key] = defaults[key]
    /\ \A key \in DOMAIN user :
          /\ key \in DOMAIN merged
          /\ IF key \in DOMAIN defaults /\ defaults[key].type = "dict"
                                        /\ user[key].type = "dict"
             THEN /\ merged[key].type = "dict"
                  /\ KeepsAll(user[key].value, defaults[key].value,
                              merged[key].value)
             ELSE merged[key] = user[key]

\* C19: for a user configuration U merged onto defaults D, at every depth
\* each key of D that U does not give is in the result with D's value and
\* each key of U is in the result with U's value, two mappings under the
\* same key being merged recursively; no default and no user key is lost.
C19_MergeKeepsDefaultsAndUserKeys ==
    op = "_apply_defaults" => KeepsAll(df.user_config, df.defaults, out)

C19_Witness ==
    /\ op = "_apply_defaults"
    /\ df.defaults = [age |-> Dict([min |-> Leaf(0), site |-> Leaf(0)])]
    /\ df.user_config = [age |-> Dict([min |-> Leaf(1)]),
                         study |-> Dict([site |-> Leaf(1)])]
    /\ out = [age |-> Dict([min |-> Leaf(1), site |-> Leaf(0)]),
              study |-> Dict([site |-> Leaf(1)])]

-----------------------------------------------------------------------------
(* Phenotype aggregation: annotated diagnoses tables and the two            *)
(* _aggregate_to_admission calls.  hadm_id is never null (the callers       *)
(* validate that before they aggregate).                                    *)

MaxDx == 3
MaxAdm == 2

SeqNums == {NaN, <<1>>, <<2>>}
StrokeDxRows ==
    [hadm_id : 1..MaxAdm, is_stroke_code : BOOLEAN, seq_num : SeqNums]
    \cup [hadm_id : 1..MaxAdm, is_stroke_code : BOOLEAN]
CvdDxRows == [hadm_id : 1..MaxAdm, is_cardiovascular_code : BOOLEAN]

\* tables of 0..MaxDx rows that all have the same columns
DxTablesOver(R) ==
    UNION {{t \in [1..n -> R] : \A i \in 1..n : DOMAIN t[i] = DOMAIN t[1]}
           : n \in 0..MaxDx}

AggregateStroke ==
    /\ op = "init"
    /\ \E t \in DxTablesOver(StrokeDxRows) :
          Call("stroke._aggregate_to_admission", t, <<>>, FALSE,
               stroke_aggregate_to_admission(t))
    /\ UNCHANGED <<rankVars, pipeVars>>

AggregateCardiovascular ==
    /\ op = "init"
    /\ \E t \in DxTablesOver(CvdDxRows) :
          Call("cardiovascular._aggregate_to_admission", t, <<>>, FALSE,
               cardiovascular_aggregate_to_admission(t))
    /\ UNCHANGED <<rankVars, pipeVars>>

\* The input files of the scripts: an admissions table with one row per
\* admission and a diagnoses table of at least one row (a code is never on
\* both codelists).
MaxJoinDx == 2

AdmissionTables ==
    {[i \in 1..MaxAdm |-> [hadm_id |-> i, subject_id |-> i, admission_type |-> "EMERGENCY",
                           age_at_admission |-> f[i]]] :
        f \in [1..MaxAdm -> {NaN, <<50>>}]}

JoinDxRows ==
    {r \in [hadm_id : 1..MaxAdm, is_stroke_code : BOOLEAN,
            is_cardiovascular_code : BOOLEAN] :
        ~(r.is_stroke_code /\ r.is_cardiovascular_code)}
\* in hadm_id order
JoinDxTables ==
    UNION {{t \in [1..n -> JoinDxRows] :
              \A i \in 1..n - 1 : t[i].hadm_id <= t[i + 1].hadm_id}
           : n \in 0..MaxJoinDx}

\* the codes of the diagnoses: I62 is on the stroke codelist, I22 on the
\* cardiovascular codelist, I66 on neither
DxCode(r) ==
    IF r.is_stroke_code THEN Str(<<"I", "6", "2">>)
    ELSE IF r.is_cardiovascular_code THEN Str(<<"I", "2", "2">>)
    ELSE Str(<<"I", "6", "6">>)

\* a diagnoses table with the columns apply_codelists() requires
Diagnoses(t) ==
    [i \in 1..Len(t) |->
        [subject_id |-> t[i].hadm_id, hadm_id |-> t[i].hadm_id,
         diagnosis_code |-> DxCode(t[i]), code_system |-> ICD10]]

\* the diagnoses files apply_codelists() is called on: none, one without
\* rows, one without the code_system column, one with an unknown code
\* system, and the tables above
DiagnosesFiles ==
    {[exists |-> FALSE, rows |-> <<>>], [exists |-> TRUE, rows |-> <<>>],
     [exists |-> TRUE,
      rows |-> <<[subject_id |-> 1, hadm_id |-> 1,
                  diagnosis_code |-> Str(<<"I", "6", "2">>)]>>],
     [exists |-> TRUE,
      rows |-> <<[subject_id |-> 1, hadm_id |-> 1,
                  diagnosis_code |-> Str(<<"I", "6", "2">>),
                  code_system |-> Str(<<"I", "C", "D", "1", "1">>)]>>]}
    \cup {[exists |-> TRUE, rows |-> Diagnoses(t)] :
              t \in {d \in JoinDxTables : Len(d) >= 1}}

\* the admissions files the joining scripts are called on: none, a table
\* with the age of every admission, the same without the age column and
\* without subject_id
AdmissionFiles ==
    {<<>>}
    \cup UNION {{adm, Without(adm, {"age_at_admission"}), Without(adm, {"subject_id"})} :
                  adm \in {a \in AdmissionTables :
                              \A i \in 1..Len(a) : a[i].age_at_admission = <<50>>}}

-----------------------------------------------------------------------------
(* Properties of the phenotype aggregation *)

Aggregated == op \in {"stroke._aggregate_to_admission",
                      "cardiovascular._aggregate_to_admission"}

\* rows of the diagnoses table of one admission, and the flagged ones
DxOf(id) == {i \in 1..Len(df) : df[i].hadm_id = id}
StrokeDxOf(id) == {i \in DxOf(id) : df[i].is_stroke_code}
CvdDxOf(id) == {i \in DxOf(id) : df[i].is_cardiovascular_code}

\* C12: for a diagnoses table without null hadm_id, each aggregation emits
\* exactly one phenotype record per distinct hadm_id of the table (also for
\* admissions without a flagged row) and none for any other admission.
C12_OneRecordPerAdmission ==
    Aggregated =>
        /\ \A id \in 1..MaxAdm :
              Cardinality({n \in 1..Len(out) : out[n].hadm_id = id})
                 = IF DxOf(id) # {} THEN 1 ELSE 0
        /\ \A n \in 1..Len(out) : out[n].hadm_id \in 1..MaxAdm

C12_Witness ==
    /\ op = "stroke._aggregate_to_admission"
    /\ Len(out) = 2
    /\ DxOf(1) # {} /\ StrokeDxOf(1) = {}
    /\ Cardinality(StrokeDxOf(2)) = 2

\* C13: every phenotype record has 0 <= code count <= total count, density
\* = count / total in [0, 1] (0.0 when the total is 0) and signal true
\* exactly when the count is positive; an admission without flagged rows has
\* count 0 and signal false.  Same for the cardiovascular record.
C13_CountsDensitySignal ==
    /\ op = "stroke._aggregate_to_admission" =>
          \A n \in 1..Len(out) :
              LET r == out[n] IN
              /\ r.total_diagnosis_count = Cardinality(DxOf(r.hadm_id))
              /\ r.stroke_code_count = Cardinality(StrokeDxOf(r.hadm_id))
              /\ 0 <= r.stroke_code_count
              /\ r.stroke_code_count <= r.total_diagnosis_count
              /\ r.stroke_code_density
                    = IF r.total_diagnosis_count = 0 THEN Zero
                      ELSE Ratio(r.stroke_code_count, r.total_diagnosis_count)
              /\ 0 <= r.stroke_code_density[1]
              /\ r.stroke_code_density[1] <= r.stroke_code_density[2]
              /\ r.has_any_stroke_signal <=> r.stroke_code_count > 0
              /\ StrokeDxOf(r.hadm_id) = {} =>
                    (r.stroke_code_count = 0 /\ ~r.has_any_stroke_signal)
    /\ op = "cardiovascular._aggregate_to_admission" =>
          \A n \in 1..Len(out) :
              LET r == out[n] IN
              /\ r.total_diagnosis_count = Cardinality(DxOf(r.hadm_id))
              /\ r.cardiovascular_code_count = Cardinality(CvdDxOf(r.hadm_id))
              /\ 0 <= r.cardiovascular_code_count
              /\ r.cardiovascular_code_count <= r.total_diagnosis_count
              /\ r.cardiovascular_code_density
                    = IF r.total_diagnosis_count = 0 THEN Zero
                      ELSE Ratio(r.cardiovascular_code_count,
                                 r.total_diagnosis_count)
              /\ 0 <= r.cardiovascular_code_density[1]
              /\ r.cardiovascular_code_density[1]
                    <= r.cardiovascular_code_density[2]
              /\ r.has_any_cvd_signal <=> r.cardiovascular_code_count > 0

C13_Witness ==
    /\ op = "stroke._aggregate_to_admission"
    /\ \E n \in 1..Len(out) :
          /\ out[n].stroke_code_count = 1
          /\ out[n].total_diagnosis_count = 3
          /\ out[n].stroke_code_density = <<1, 3>>
          /\ out[n].has_any_stroke_signal

\* C14: with a seq_num column, stroke_primary_dx_flag of an admission is true
\* exactly when one of its rows has seq_num = 1 and is stroke-flagged; without
\* the column the flag is false for every admission.
C14_PrimaryDxFlag ==
    op = "stroke._aggregate_to_admission" =>
        \A n \in 1..Len(out) :
            out[n].stroke_primary_dx_flag
              <=> /\ HasColumn(df, "seq_num")
                  /\ \E i \in StrokeDxOf(out[n].hadm_id) : df[i].seq_num = <<1>>

C14_Witness ==
    /\ op = "stroke._aggregate_to_admission"
    /\ HasColumn(df, "seq_num")
    /\ Len(out) = 2
    /\ out[1].stroke_primary_dx_flag
    /\ ~out[2].stroke_primary_dx_flag
    /\ \E i, j \in DxOf(2) :
          /\ df[i].seq_num = <<1>> /\ ~df[i].is_stroke_code
          /\ df[j].seq_num = <<2>> /\ df[j].is_stroke_code

-----------------------------------------------------------------------------
(* The pipeline: the files of the data directory and the calls that write   *)
(* them.  annotated is the annotated diagnoses file, phenotypes the two    *)
(* phenotype files, heuristics the eligibility heuristics table, features  *)
(* the processed feature matrix.  A file that does not exist is <<>>.      *)

\* apply_codelists._load_diagnoses(path): FileNotFoundError when the file
\* does not exist, ValueError when a required column is missing
codelists_load_diagnoses(file) ==
    IF ~file.exists THEN "FileNotFoundError"
    ELSE IF \E c \in {"subject_id", "hadm_id", "diagnosis_code", "code_system"} :
                ~HasColumn(file.rows, c)
    THEN "ValueError"
    ELSE ""

\* apply_codelists(diagnoses_path) on a diagnoses file: loads it and applies
\* the codelists; what it raises and the annotated table it returns
apply_codelists_file(file) ==
    IF codelists_load_diagnoses(file) # ""
    THEN [raises |-> codelists_load_diagnoses(file), returns |-> <<>>]
    ELSE apply_codelists(file.rows)

\* apply_codelists(diagnoses_path): the table it returns is the table it
\* writes to diagnoses_with_codelists.csv.  The behaviours explored are
\* those that begin with this call.
ApplyCodelistsFile ==
    /\ op = "init"
    /\ \E file \in DiagnosesFiles :
          LET r == apply_codelists_file(file)
          IN  /\ CallResult("apply_codelists", file, r.raises, r.returns)
              /\ annotated' = IF r.raises # "" THEN annotated
                               ELSE to_csv(annotated, r.returns)
    /\ UNCHANGED <<rankVars, phenotypes, heuristics, features>>

\* pd.api.types.is_bool_dtype(df[col]) of a flag column read from a file: a
\* column with a null cell is read with object dtype
is_bool_dtype(t, col) == ~any_null(t, col)

\* cardiovascular_phenotype._validate_input(df): ValueError when a required
\* column is missing, TypeError when the flag column is not boolean,
\* ValueError when a hadm_id is null
cardiovascular_validate_input(t) ==
    IF \E c \in {"subject_id", "hadm_id", "diagnosis_code", "is_cardiovascular_code"} :
           ~HasColumn(t, c)
    THEN "ValueError"
    ELSE IF ~is_bool_dtype(t, "is_cardiovascular_code") THEN "TypeError"
    ELSE IF any_null(t, "hadm_id") THEN "ValueError"
    ELSE ""

\* derive_cardiovascular_phenotype(path) on the annotated diagnoses file t
\* (<<>> when the file does not exist): what it raises and the phenotype
\* table it returns
derive_cardiovascular_phenotype(t) ==
    IF t = <<>>
    THEN [raises |-> "FileNotFoundError", returns |-> <<>>]
    ELSE IF cardiovascular_validate_input(t) # ""
    THEN [raises |-> cardiovascular_validate_input(t), returns |-> <<>>]
    ELSE [raises |-> "", returns |-> cardiovascular_aggregate_to_admission(t)]

\* an annotated diagnoses file of one row whose cardiovascular flag is null
NullFlagDiagnoses ==
    {<<[hadm_id |-> 1, subject_id |-> 1, diagnosis_code |-> c, code_system |-> ICD10,
        is_stroke_code |-> FALSE, is_cardiovascular_code |-> FALSE,
        null_cells |-> {"is_cardiovascular_code"}]>> : c \in FewCodes}

\* the files derive_cardiovascular_phenotype is called on: none, one without
\* the flags, one with a null flag, one with a null hadm_id
CardiovascularScriptFiles ==
    {<<>>} \cup UnflaggedDiagnoses \cup NullFlagDiagnoses \cup NullAdmissionDiagnoses

\* one call of derive_cardiovascular_phenotype on the file t: the table it
\* returns is the table it writes to cardiovascular_phenotype.csv
CallDeriveCardiovascularPhenotype(t) ==
    LET r == derive_cardiovascular_phenotype(t)
    IN  /\ CallResult("derive_cardiovascular_phenotype", t, r.raises, r.returns)
        /\ phenotypes' = IF r.raises # "" THEN phenotypes
                         ELSE [phenotypes EXCEPT
                                  !.cvd = to_csv(phenotypes.cvd, r.returns)]

\* derive_cardiovascular_phenotype(path), on one of the files above or on
\* the file apply_codelists() writes
DeriveCardiovascularPhenotype ==
    /\ \/ /\ op = "init"
          /\ \E t \in CardiovascularScriptFiles :
                CallDeriveCardiovascularPhenotype(t)
       \/ CallDeriveCardiovascularPhenotype(annotated)
    /\ UNCHANGED <<rankVars, annotated, heuristics, features>>

\* a loader of eligibility_label.py: FileNotFoundError when the file does not
\* exist, ValueError when a required column is missing
load_required(t, required) ==
    IF t = <<>> THEN "FileNotFoundError"
    ELSE IF \E c \in required : ~HasColumn(t, c) THEN "ValueError"
    ELSE ""

load_admissions(t) ==
    load_required(t, {"hadm_id", "subject_id", "admission_type"})

load_stroke_phenotype(t) ==
    load_required(t, {"hadm_id", "has_any_stroke_signal", "stroke_code_count"})

load_cardiovascular_phenotype(t) ==
    load_required(t, {"hadm_id", "has_any_cvd_signal", "cardiovascular_code_count"})

\* derive_eligibility_labels(admissions_path): loads the three files, joins, applies the
\* heuristics; what it raises and the table it returns
derive_eligibility_labels(adm, stroke, cvd) ==
    LET e == FirstRaised(<<load_admissions(adm), load_stroke_phenotype(stroke),
                           load_cardiovascular_phenotype(cvd)>>)
    IN  IF e # "" THEN [raises |-> e, returns |-> <<>>]
        ELSE apply_heuristics(join_inputs(adm, stroke, cvd))

\* derive_eligibility_labels(admissions_path): the table it returns is the table it writes
\* to eligibility_heuristics.csv
DeriveEligibilityLabels ==
    /\ \E adm \in AdmissionFiles :
          LET r == derive_eligibility_labels(adm, phenotypes.stroke, phenotypes.cvd)
          IN  /\ CallResult("derive_eligibility_labels",
                            [admissions |-> adm, stroke |-> phenotypes.stroke,
                             cvd |-> phenotypes.cvd],
                            r.raises, r.returns)
              /\ heuristics' = IF r.raises # "" THEN heuristics
                               ELSE to_csv(heuristics, r.returns)
    /\ UNCHANGED <<rankVars, annotated, phenotypes, features>>

\* a loader of build_feature_matrix.py: FileNotFoundError when the file does
\* not exist
load_file(t) == IF t = <<>> THEN "FileNotFoundError" ELSE ""

\* some admission has no record in the phenotype file: the left merge leaves
\* a missing cell in the columns of that file
unmatched(adm, pheno) ==
    \E i \in 1..Len(adm) :
        \A j \in 1..Len(pheno) : pheno[j].hadm_id # adm[i].hadm_id

\* is_bool_dtype of a signal column after the merge and fillna(False): a
\* column without missing cell stayed boolean; one with a missing cell became
\* object and is boolean again only where fillna downcasts (that depends on
\* the pandas build)
filled_is_bool(adm, pheno, downcast) == downcast \/ ~unmatched(adm, pheno)

\* _validate_feature_matrix(df): ValueError when a required column is missing
\* or hadm_id is duplicated, TypeError when a boolean column is not boolean
validate_feature_matrix(t, bool_columns) ==
    IF \E c \in {"subject_id", "hadm_id", "eligibility_heuristic_label",
                  "stroke_code_count", "stroke_code_density",
                  "has_any_stroke_signal", "cardiovascular_code_count",
                  "cardiovascular_code_density", "has_any_cvd_signal"} :
           ~HasColumn(t, c)
    THEN "ValueError"
    ELSE IF \E i, j \in 1..Len(t) : i # j /\ t[i].hadm_id = t[j].hadm_id
    THEN "ValueError"
    ELSE IF ~bool_columns THEN "TypeError"
    ELSE ""

\* build_feature_matrix(admissions_path): loads the four files, joins, validates; what it
\* raises and the matrix it returns
build_feature_matrix(adm, stroke, cvd, heur, downcast) ==
    LET e == FirstRaised(<<load_file(adm), load_file(stroke), load_file(cvd),
                           load_file(heur)>>)
    IN  IF e # "" THEN [raises |-> e, returns |-> <<>>]
        ELSE LET matrix == join_all_tables(adm, stroke, cvd, heur)
                 v == validate_feature_matrix(matrix,
                          /\ filled_is_bool(adm, stroke, downcast)
                          /\ filled_is_bool(adm, cvd, downcast))
             IN  IF v # "" THEN [raises |-> v, returns |-> <<>>]
                 ELSE [raises |-> "", returns |-> matrix]

\* build_feature_matrix(admissions_path): the matrix it returns is the matrix it writes to
\* trial_eligibility_features.csv
BuildFeatureMatrix ==
    /\ \E adm \in AdmissionFiles, downcast \in BOOLEAN :
          LET r == build_feature_matrix(adm, phenotypes.stroke, phenotypes.cvd,
                                        heuristics, downcast)
          IN  /\ CallResult("build_feature_matrix",
                            [admissions |-> adm, stroke |-> phenotypes.stroke,
                             cvd |-> phenotypes.cvd, heuristics |-> heuristics],
                            r.raises, r.returns)
              /\ features' = IF r.raises # "" THEN features
                              ELSE to_csv(features, r.returns)
    /\ UNCHANGED <<rankVars, annotated, phenotypes, heuristics>>

\* the name run_engine.py imports from each phenotype module
RunEngineImports ==
    [stroke_phenotype |-> "build_stroke_phenotype",
     cardiovascular_phenotype |-> "build_cardiovascular_phenotype"]

\* the functions each phenotype module defines
PhenotypeModuleNames ==
    [stroke_phenotype |->
         {"derive_stroke_phenotype", "_validate_input", "_aggregate_to_admission"},
     cardiovascular_phenotype |->
         {"derive_cardiovascular_phenotype", "_validate_input",
          "_aggregate_to_admission"}]

\* importing app.run_engine: "from module import name" raises ImportError
\* when the module does not define the name
import_run_engine ==
    IF \E m \in DOMAIN RunEngineImports :
           RunEngineImports[m] \notin PhenotypeModuleNames[m]
    THEN "ImportError"
    ELSE ""

\* a call of run_study(study_config_path, output_dir): the function is reached
\* through the import of app.run_engine, which raises; no statement of
\* run_study runs and no file changes
RunStudy ==
    /\ import_run_engine # ""
    /\ CallResult("run_study", <<>>, import_run_engine, <<>>)
    /\ UNCHANGED <<rankVars, pipeVars>>

NextPhenotype ==
    \/ AggregateStroke
    \/ AggregateCardiovascular
    \/ DeriveStrokePhenotype
    \/ DeriveCardiovascularPhenotype

SpecPhenotype == Init /\ [][NextPhenotype]_vars

NextPipeline ==
    \/ ApplyCodelistsFile
    \/ DeriveStrokePhenotype
    \/ DeriveCardiovascularPhenotype
    \/ DeriveEligibilityLabels
    \/ BuildFeatureMatrix
    \/ RunStudy

SpecPipeline == Init /\ [][NextPipeline]_vars

Next == NextRules \/ NextRanking \/ NextScreening \/ NextClassifier
           \/ NextConfig \/ NextPhenotype \/ NextPipeline

Spec == Init /\ [][Next]_vars

-----------------------------------------------------------------------------
(* Properties of the joins *)

\* a script that joins has returned its table
Joined == op \in {"derive_eligibility_labels", "build_feature_matrix"} /\ err = ""

\* admissions of the admissions table without a row in the diagnoses table
Undiagnosed ==
    {i \in 1..Len(df.admissions) :
        \A j \in 1..Len(annotated) :
            annotated[j].hadm_id # df.admissions[i].hadm_id}

\* the rows of the joined table of an admission
JoinedRowsOf(i) == {n \in 1..Len(out) : out[n].hadm_id = df.admissions[i].hadm_id}

\* C15: after the join of admissions with the phenotype tables every
\* admission appears exactly once, and an admission without a row in the
\* diagnoses table has stroke_code_count = 0, has_any_stroke_signal = false,
\* cardiovascular_code_count = 0, has_any_cvd_signal = false (density 0.0 in
\* the feature matrix) and eligibility_heuristic_label = false.
C15_JoinDefaults ==
    Joined =>
        /\ \A i \in 1..Len(df.admissions) : Cardinality(JoinedRowsOf(i)) = 1
        /\ Len(out) = Len(df.admissions)
        /\ \A i \in Undiagnosed : \A n \in JoinedRowsOf(i) :
              /\ out[n].stroke_code_count = 0
              /\ ~out[n].has_any_stroke_signal
              /\ out[n].cardiovascular_code_count = 0
              /\ ~out[n].has_any_cvd_signal
              /\ ~out[n].eligibility_heuristic_label
              /\ op = "build_feature_matrix" =>
                    /\ out[n].stroke_code_density = Zero
                    /\ out[n].cardiovascular_code_density = Zero

C15_Witness ==
    /\ op = "build_feature_matrix"
    /\ err = ""
    /\ Undiagnosed = {1}
    /\ HasColumn(df.admissions, "age_at_admission")
    /\ \A j \in 1..Len(df.stroke) : df.stroke[j].hadm_id = 2
    /\ ~out[1].eligibility_heuristic_label
    /\ out[1].stroke_code_density = Zero
    /\ out[2].eligibility_heuristic_label
    /\ out[2].stroke_code_count = 2
    /\ features = out

-----------------------------------------------------------------------------
(* Further properties of the rule engine *)

\* C24: in a table that has the age column, a row whose age is null gets
\* age_in_range false and age_excluded false from apply_age_rules and from
\* the age step of _apply_heuristics, so its eligibility_heuristic_label is
\* false whatever its stroke signal and admission type are.
C24_NullAgeIsOutOfRangeNotExcluded ==
    (/\ op \in {"apply_age_rules", "_apply_heuristics"}
     /\ err = ""
     /\ HasColumn(passed.df, "age_at_admission")) =>
        \A i \in 1..Len(out) :
            passed.df[i].age_at_admission = NaN =>
                /\ ~out[i].age_in_range
                /\ ~age_excluded(out[i])
                /\ op = "_apply_heuristics" => ~out[i].eligibility_heuristic_label

C24_Witness ==
    /\ Returned("_apply_heuristics")
    /\ HasColumn(passed.df, "age_at_admission")
    /\ \E i \in 1..Len(out) :
          /\ passed.df[i].age_at_admission = NaN
          /\ passed.df[i].has_any_stroke_signal
          /\ out[i].admission_ok
          /\ ~out[i].age_in_range
          /\ ~age_excluded(out[i])
          /\ ~out[i].eligibility_heuristic_label

\* the cell a table holds for an age value: a missing age is a null cell
cell_of(age) == IF age.type = "NoneType" THEN NaN ELSE age.value

\* C25: for every age value, a missing one included, and every study
\* configuration, is_age_eligible(age) is age_in_range AND NOT age_excluded
\* as apply_age_rules computes them on a table holding that age.
C25_HelperAgreesWithAgeRules ==
    Returned("is_age_eligible") =>
        LET row == apply_age_rules(<<[age_at_admission |-> cell_of(passed.df)]>>,
                                   passed.study_config)[1]
        IN  out <=> (row.age_in_range /\ ~row.age_excluded)

\* C26: for every study configuration, one with an age section giving
\* hard_exclude but no exclusions section included, and with the age sub-rule
\* enabled, apply_exclusion_rules excludes a row with the reason
\* "age_above_hard_limit" exactly when apply_age_rules marks the same row
\* age_excluded under the same configuration.
C26_SameHardLimitInBothRules ==
    (/\ Returned("apply_exclusion_rules")
     /\ Configured(passed.study_config, "exclusions",
                   "exclude_if_age_above_hard_limit", TRUE)) =>
        \A i \in 1..Len(out) :
            (out[i].excluded /\ out[i].exclusion_reason = "age_above_hard_limit")
              <=> apply_age_rules(passed.df, passed.study_config)[i].age_excluded

\* C27: under the default configuration, the excluded column of the table
\* _apply_heuristics builds for derive_eligibility_labels equals, for every
\* admission, the excluded flag apply_exclusion_rules gives that admission;
\* in particular an admission without a stroke signal whose age is not above
\* the hard limit has excluded = true.
C27_HeuristicsExcludedMatchesExclusionRules ==
    (Returned("_apply_heuristics") /\ ~exclusion_rules_missing(passed.df)) =>
        \A i \in 1..Len(out) :
            out[i].excluded
              <=> apply_exclusion_rules(passed.df, DocumentedDefaults)[i].excluded

-----------------------------------------------------------------------------
(* Further properties of the code classifier and the phenotypes *)

\* C28: when the annotated diagnoses table has no is_stroke_code column, the
\* flag derive_stroke_phenotype derives itself is the flag is_stroke_code
\* returns for the same diagnosis code and code system, for every code and
\* both code systems ICD9 and ICD10.
C28_DerivedFlagIsClassifierFlag ==
    (Returned("derive_stroke_phenotype") /\ ~HasColumn(df, "is_stroke_code")) =>
        \A n \in 1..Len(out) :
            LET classified ==
                  {i \in 1..Len(df) :
                      /\ df[i].hadm_id = out[n].hadm_id
                      /\ is_stroke_code(df[i].diagnosis_code,
                                        df[i].code_system).returns}
            IN  /\ \A i \in 1..Len(df) :
                      is_stroke_code(df[i].diagnosis_code,
                                     df[i].code_system).raises = ""
                /\ out[n].stroke_code_count = Cardinality(classified)
                /\ out[n].has_any_stroke_signal <=> classified # {}

-----------------------------------------------------------------------------
(* Further properties of the ranking evaluator *)

\* C29: the heuristic-only metrics do not depend on the order of the rows:
\* for every table, every permutation of its rows and every K >= 0,
\* _evaluate_heuristic_screening returns for the permuted table the
\* recall_at_k and precision_at_k it returned for the table.
C29_HeuristicMetricsIgnoreRowOrder ==
    (op = "_evaluate_heuristic_screening" /\ Len(results) = 2) =>
        /\ results[2].k = results[1].k
        /\ results[2].recall_at_k = results[1].recall_at_k
        /\ results[2].precision_at_k = results[1].precision_at_k

\* the second call had the rows [T, T, F] where the first had [F, T, T]
C29_Witness ==
    /\ op = "_evaluate_heuristic_screening"
    /\ Len(results) = 2
    /\ ranked = <<3, 2, 1>>
    /\ scored[1].eligibility_heuristic_label
    /\ scored[2].eligibility_heuristic_label
    /\ ~scored[3].eligibility_heuristic_label
    /\ results[1].k = 1
    /\ results[1].recall_at_k = <<1, 2>>
    /\ results[2].recall_at_k = <<1, 2>>
    /\ results[2].precision_at_k = <<1, 1>>

\* a metric, a fraction in lowest terms, is a number of [0, 1]
InUnitInterval(m) == 0 <= m[1] /\ m[1] <= m[2] /\ m[2] > 0

\* m1 <= m2 for two fractions with positive denominators
Leq(m1, m2) == m1[1] * m2[2] <= m2[1] * m1[2]

\* C30: for every valid scored table and both methods, recall_at_k and
\* precision_at_k are numbers of [0, 1] for every K >= 0, recall_at_k does
\* not decrease when K grows, and when the table has a heuristic-positive
\* row recall_at_k is 1 for every K that is at least the number of rows.
C30_MetricsBoundedAndRecallMonotone ==
    Evaluated =>
        /\ \A n \in 1..Len(results) :
              /\ InUnitInterval(results[n].recall_at_k)
              /\ InUnitInterval(results[n].precision_at_k)
              /\ (P > 0 /\ results[n].k >= Len(scored))
                    => results[n].recall_at_k = <<1, 1>>
        /\ \A n, m \in 1..Len(results) :
              (results[n].method = results[m].method
                 /\ results[n].k <= results[m].k)
                => Leq(results[n].recall_at_k, results[m].recall_at_k)

C30_Witness ==
    /\ Evaluated
    /\ Len(scored) = 3
    /\ P = 2
    /\ k_values = <<1, 3>>
    /\ \E n, m \in ResultsOf("ml") :
          /\ results[n].k = 1 /\ results[n].recall_at_k = <<0, 1>>
          /\ results[n].precision_at_k = <<0, 1>>
          /\ results[m].k = 3 /\ results[m].recall_at_k = <<1, 1>>
          /\ results[m].precision_at_k = <<2, 3>>
    /\ \E n \in ResultsOf("heuristic") :
          results[n].k = 1 /\ results[n].recall_at_k = <<1, 2>>

=============================================================================
